---- MODULE Spec2Model ----
(***************************************************************************)
(* Model of the dzt-tourism-platform API layer:                            *)
(*   src/lib/db-transport.ts      rail client with the URL-keyed cache     *)
(*   src/lib/amadeus-flights.ts   flight client with the bearer token      *)
(*   src/pages/api/...            the six GET request handlers             *)
(*                                                                         *)
(* JavaScript strings are sequences of one-character strings.  A handler   *)
(* runs without interruption from one await of an outbound HTTP call to    *)
(* the next (single-threaded event loop), so one action is one such run.   *)
(***************************************************************************)
EXTENDS Integers, Sequences, FiniteSets, TLC

VARIABLES
    now,          \* Date.now(), in ms since the process started
    cache,        \* db-transport.ts: const cache = new Map(url -> {data, expires})
    accessToken,  \* amadeus-flights.ts: let accessToken
    tokenExpiry,  \* amadeus-flights.ts: let tokenExpiry
    env,          \* import.meta.env: the two AMADEUS_* variables
    provider,     \* which provider's handlers the inbound traffic of this run uses
    req,          \* the in-flight / last finished request of each event-loop slot
    started,      \* number of inbound requests accepted so far
    ev,           \* what the last step did: cache hits, outbound calls, stores, responses
    fn,           \* pure-function harness: the helper under evaluation
    arg,          \* pure-function harness: its input
    res           \* pure-function harness: its result

vars == <<now, cache, accessToken, tokenExpiry, env, provider, req, started, ev, fn, arg, res>>

-----------------------------------------------------------------------------
(* JavaScript values and strings *)

Null == <<"#null">>            \* URLSearchParams.get of a missing parameter
Undefined == <<"#undefined">>  \* undefined
EmptyStr == <<>>

\* !v for a string-or-null-or-undefined value
Falsy(v) == v = Null \/ v = Undefined \/ v = EmptyStr

Truthy(v) == ~Falsy(v)

Digits == {"0", "1", "2", "3", "4", "5", "6", "7", "8", "9"}

AUml == "U+00C4"
OUml == "U+00D6"
UUml == "U+00DC"
aUml == "U+00E4"
oUml == "U+00F6"
uUml == "U+00FC"
szlig == "U+00DF"

UpperLetters ==
    <<"A", "B", "C", "D", "E", "F", "G", "H", "I", "J", "K", "L", "M",
      "N", "O", "P", "Q", "R", "S", "T", "U", "V", "W", "X", "Y", "Z",
      AUml, OUml, UUml>>

LowerLetters ==
    <<"a", "b", "c", "d", "e", "f", "g", "h", "i", "j", "k", "l", "m",
      "n", "o", "p", "q", "r", "s", "t", "u", "v", "w", "x", "y", "z",
      aUml, oUml, uUml>>

\* [A-Z] of a regular expression: the 26 ASCII capitals only
IsAsciiUpper(c) == \E i \in 1..26 : UpperLetters[i] = c

\* the lower-case letter of each capital
LowerOf ==
    [c \in { UpperLetters[i] : i \in 1..Len(UpperLetters) } |->
        LowerLetters[CHOOSE i \in 1..Len(UpperLetters) : UpperLetters[i] = c]]

LowerChar(c) == IF c \in DOMAIN LowerOf THEN LowerOf[c] ELSE c

\* String.prototype.toUpperCase maps one character to one or more: the sharp s
\* has no single capital and becomes "SS"
UpperChar(c) ==
    IF c = szlig THEN <<"S", "S">>
    ELSE IF \E i \in 1..Len(LowerLetters) : LowerLetters[i] = c
    THEN <<UpperLetters[CHOOSE i \in 1..Len(LowerLetters) : LowerLetters[i] = c]>>
    ELSE <<c>>

toLowerCase(s) == [i \in 1..Len(s) |-> LowerChar(s[i])]

RECURSIVE toUpperCase(_)
toUpperCase(s) ==
    IF s = <<>> THEN <<>> ELSE UpperChar(Head(s)) \o toUpperCase(Tail(s))

\* String.prototype.includes
includes(hay, needle) ==
    \E i \in 0..(Len(hay) - Len(needle)) :
        \A j \in 1..Len(needle) : hay[i + j] = needle[j]

IsWhite(c) == c \in {" ", "\t", "\n"}

RECURSIVE trimStart(_)
trimStart(s) ==
    IF s # <<>> /\ IsWhite(Head(s)) THEN trimStart(Tail(s)) ELSE s

RECURSIVE trimEnd(_)
trimEnd(s) ==
    IF s # <<>> /\ IsWhite(s[Len(s)]) THEN trimEnd(SubSeq(s, 1, Len(s) - 1)) ELSE s

\* String.prototype.trim
trim(s) == trimEnd(trimStart(s))

AllDigits(s) == \A i \in 1..Len(s) : s[i] \in Digits

\* /^\d{7,8}$/.test(s)
\* faulty variant of the station-id test: any run of digits (C4 rejects it)
IsStationId_AnyDigits(s) == AllDigits(s)

IsStationId(s) == Len(s) \in {7, 8} /\ AllDigits(s)

\* \d+\.\d+
IsDecimal(s) ==
    \E k \in 2..(Len(s) - 1) :
        /\ s[k] = "."
        /\ AllDigits(SubSeq(s, 1, k - 1))
        /\ AllDigits(SubSeq(s, k + 1, Len(s)))

\* /^\d+\.\d+,\d+\.\d+$/.test(s)
IsCoordPair(s) ==
    \E k \in 1..Len(s) :
        /\ s[k] = ","
        /\ IsDecimal(SubSeq(s, 1, k - 1))
        /\ IsDecimal(SubSeq(s, k + 1, Len(s)))

\* Property names every object literal inherits from Object.prototype: obj[key]
\* finds them although the literal does not list them
ObjectPrototypeKeys ==
    { <<"c", "o", "n", "s", "t", "r", "u", "c", "t", "o", "r">>,
      <<"t", "o", "S", "t", "r", "i", "n", "g">>,
      <<"v", "a", "l", "u", "e", "O", "f">> }

\* the (truthy, non-string) value obj[key] yields for an inherited key
Inherited(key) == <<"#Object.prototype">> \o key

\* obj[key] for an object literal given as its entries in source order
Lookup(entries, key) ==
    IF \E i \in 1..Len(entries) : entries[i][1] = key
    THEN entries[CHOOSE i \in 1..Len(entries) : entries[i][1] = key][2]
    ELSE IF key \in ObjectPrototypeKeys THEN Inherited(key)
    ELSE Undefined

-----------------------------------------------------------------------------
(* amadeus-flights.ts: airport codes *)

GERMAN_AIRPORTS ==
    << << <<"B", "e", "r", "l", "i", "n">>, <<"B", "E", "R">> >>,
       << <<"F", "r", "a", "n", "k", "f", "u", "r", "t">>, <<"F", "R", "A">> >>,
       << <<"M", uUml, "n", "c", "h", "e", "n">>, <<"M", "U", "C">> >>,
       << <<"H", "a", "m", "b", "u", "r", "g">>, <<"H", "A", "M">> >>,
       << <<"D", uUml, "s", "s", "e", "l", "d", "o", "r", "f">>, <<"D", "U", "S">> >>,
       << <<"K", oUml, "l", "n">>, <<"C", "G", "N">> >>,
       << <<"S", "t", "u", "t", "t", "g", "a", "r", "t">>, <<"S", "T", "R">> >>,
       << <<"H", "a", "n", "n", "o", "v", "e", "r">>, <<"H", "A", "J">> >>,
       << <<"N", uUml, "r", "n", "b", "e", "r", "g">>, <<"N", "U", "E">> >>,
       << <<"L", "e", "i", "p", "z", "i", "g">>, <<"L", "E", "J">> >>,
       << <<"D", "r", "e", "s", "d", "e", "n">>, <<"D", "R", "S">> >>,
       << <<"B", "r", "e", "m", "e", "n">>, <<"B", "R", "E">> >> >>

\* /^[A-Z]{3}$/.test(s)
IsIataShape(s) == Len(s) = 3 /\ \A i \in 1..3 : IsAsciiUpper(s[i])

\* the for loop over Object.entries(GERMAN_AIRPORTS): the first entry that matches
PartialMatchIndex(normalized) ==
    { i \in 1..Len(GERMAN_AIRPORTS) :
        \/ includes(toLowerCase(GERMAN_AIRPORTS[i][1]), normalized)
        \/ includes(normalized, toLowerCase(GERMAN_AIRPORTS[i][1])) }

Min(S) == CHOOSE x \in S : \A y \in S : x <= y

getAirportCode(city) ==
    IF Truthy(Lookup(GERMAN_AIRPORTS, city)) THEN Lookup(GERMAN_AIRPORTS, city)
    ELSE IF PartialMatchIndex(toLowerCase(city)) # {}
    THEN GERMAN_AIRPORTS[Min(PartialMatchIndex(toLowerCase(city)))][2]
    ELSE IF IsIataShape(toUpperCase(city)) THEN toUpperCase(city)
    ELSE Undefined

-----------------------------------------------------------------------------
(* JavaScript numbers read from query parameters *)

Num(v) == [k |-> "num", v |-> v]
NaN == [k |-> "nan", v |-> 0]
NoParam == [k |-> "absent", v |-> 0]   \* a parameter the URL does not carry

DigitVal(c) == CHOOSE d \in 0..9 : <<"0", "1", "2", "3", "4", "5", "6", "7", "8", "9">>[d + 1] = c

RECURSIVE DigitPrefixVal(_, _)
\* the value of the longest prefix of digits of s, read after the value acc
DigitPrefixVal(s, acc) ==
    IF s = <<>> \/ Head(s) \notin Digits THEN acc
    ELSE DigitPrefixVal(Tail(s), 10 * acc + DigitVal(Head(s)))

\* parseInt(s): leading white space, an optional sign, then the digits up to the
\* first other character; NaN when there is no digit
parseInt(s) ==
    LET t == trimStart(s)
        neg == t # <<>> /\ Head(t) = "-"
        u == IF t # <<>> /\ Head(t) \in {"-", "+"} THEN Tail(t) ELSE t
    IN  IF u = <<>> \/ Head(u) \notin Digits THEN NaN
        ELSE Num(IF neg THEN 0 - DigitPrefixVal(u, 0) ELSE DigitPrefixVal(u, 0))

RECURSIVE NumberToString(_)
\* String(n) of a non-negative integer
NumberToString(n) ==
    IF n < 10 THEN << <<"0", "1", "2", "3", "4", "5", "6", "7", "8", "9">>[n + 1] >>
    ELSE NumberToString(n \div 10) \o NumberToString(n % 10)

\* s || dflt
OrDefault(s, dflt) == IF Falsy(s) THEN dflt ELSE s

\* faulty variant of Math.min: the cap not applied (C16 rejects it)
MathMin_NoCap(x, cap) == x

\* Math.min(x, cap)
MathMin(x, cap) ==
    IF x.k = "nan" THEN NaN
    ELSE IF x.v < cap THEN x ELSE Num(cap)

\* if (options?.x) params.set('x', String(options.x)): 0 and NaN are left out
IfTruthyNum(x) == IF x.k = "num" /\ x.v # 0 THEN x ELSE NoParam

-----------------------------------------------------------------------------
(* Outbound request URLs.  Every URL is a record of the same shape: the      *)
(* provider, the path, and the parameters that vary between calls.           *)

Url(base, path, a, b, c, n, m) ==
    [base |-> base, path |-> path, a |-> a, b |-> b, c |-> c, n |-> n, m |-> m]

-----------------------------------------------------------------------------
(* db-transport.ts *)

CACHE_TTL == 60 * 1000

DEPARTURES_TTL == 30 * 1000

JOURNEYS_TTL == 60 * 1000

\* fetchWithCache: cached && cached.expires > Date.now()
\* faulty variant of the freshness test: an entry expiring now still served (C1 rejects it)
CacheHit_Stale(c, url, t) == url \in DOMAIN c /\ c[url].expires >= t

CacheHit(c, url, t) == url \in DOMAIN c /\ c[url].expires > t

\* faulty variant of the store: a write sweeps the expired entries out of the
\* map (C22 rejects it)
CacheStore_EvictExpired(c, url, data, ttl, t) ==
    [u \in { k \in DOMAIN c : c[k].expires > t } \cup {url} |->
        IF u = url THEN [data |-> data, expires |-> t + ttl] ELSE c[u]]

\* faulty variant of the store: the entry kept for twice its TTL (C20 rejects it)
CacheStore_TwiceTtl(c, url, data, ttl, t) ==
    [u \in DOMAIN c \cup {url} |->
        IF u = url THEN [data |-> data, expires |-> t + 2 * ttl] ELSE c[u]]

\* fetchWithCache: cache.set(url, { data, expires: Date.now() + ttl })
CacheStore(c, url, data, ttl, t) ==
    [u \in DOMAIN c \cup {url} |->
        IF u = url THEN [data |-> data, expires |-> t + ttl] ELSE c[u]]

\* a call of fetchWithCache(url, ttl), to be run by the event loop
DbCall(url, ttl) == [kind |-> "db", url |-> url, ttl |-> ttl]

\* searchLocations(query, {results, stops, addresses, poi}): every caller leaves
\* stops/addresses/poi at true/false/false
searchLocations(query, results) ==
    DbCall(Url("db", "/locations", query, EmptyStr, EmptyStr, results, NoParam), CACHE_TTL)

\* getDepartures(stopId, {duration, results})
getDepartures(stopId, duration, results) ==
    DbCall(Url("db", "/stops/:id/departures", stopId, EmptyStr, EmptyStr,
               IfTruthyNum(duration), IfTruthyNum(results)), DEPARTURES_TTL)

\* findJourneys(from, to, {departure, results, transfers, stopovers: true})
findJourneys(from, to, departure, results, transfers) ==
    DbCall(Url("db", "/journeys", from, to,
               IF Truthy(departure) THEN departure ELSE EmptyStr,
               IfTruthyNum(results), transfers), JOURNEYS_TTL)

\* a delay the provider leaves null, or a field it leaves out
NullNum == [k |-> "null", v |-> 0]
UndefinedNum == [k |-> "undefined", v |-> 0]

\* Math.round(x / n) for a positive n: the nearest integer, a half rounded up
MathRoundDiv(x, n) == (2 * x + n) \div (2 * n)

\* String(n) of an integer (of -0 too, which Math.round gives for -n/2 <= x < 0)
IntToString(n) == IF n < 0 THEN <<"-">> \o NumberToString(0 - n) ELSE NumberToString(n)

\* formatDelay(delaySeconds)
formatDelay(delaySeconds) ==
    IF delaySeconds = NullNum \/ delaySeconds = UndefinedNum \/ delaySeconds = Num(0)
    THEN EmptyStr
    ELSE LET minutes == MathRoundDiv(delaySeconds.v, 60)
         IN  IF minutes > 0
             THEN <<"+">> \o IntToString(minutes) \o <<" ", "m", "i", "n">>
             ELSE IntToString(minutes) \o <<" ", "m", "i", "n">>

\* faulty variant of the transfer count: walking legs counted too (C14 rejects it)
getTransferCount_AllLegs(journey) ==
    IF Len(journey.legs) - 1 > 0 THEN Len(journey.legs) - 1 ELSE 0

\* getTransferCount(journey): walking legs do not count
getTransferCount(journey) ==
    LET transportLegs == { i \in 1..Len(journey.legs) : ~journey.legs[i].walking }
    IN  IF Cardinality(transportLegs) - 1 > 0 THEN Cardinality(transportLegs) - 1 ELSE 0

-----------------------------------------------------------------------------
(* amadeus-flights.ts *)

TOKEN_MARGIN == 60000

\* import.meta.env.AMADEUS_CLIENT_ID && import.meta.env.AMADEUS_CLIENT_SECRET
isAmadeusConfigured(e) == Truthy(e.AMADEUS_CLIENT_ID) /\ Truthy(e.AMADEUS_CLIENT_SECRET)

\* getAccessToken: !clientId || !clientSecret
CredentialsMissing(e) == Falsy(e.AMADEUS_CLIENT_ID) \/ Falsy(e.AMADEUS_CLIENT_SECRET)

\* getAccessToken: accessToken && Date.now() < tokenExpiry - 60000
\* faulty variant of the token test: no safety margin (C2 rejects it)
TokenValid_NoMargin(tok, expiry, t) == Truthy(tok) /\ t < expiry

TokenValid(tok, expiry, t) == Truthy(tok) /\ t < expiry - TOKEN_MARGIN

TokenUrl == Url("amadeus", "/v1/security/oauth2/token", EmptyStr, EmptyStr, EmptyStr, NoParam, NoParam)

\* a call of getAccessToken(), the first step of amadeusRequest(endpoint)
TokenCall(endpoint) == [kind |-> "token", url |-> endpoint, ttl |-> 0]

\* the fetch of amadeusRequest, or the fetch of the connections handler
HttpCall(url) == [kind |-> "http", url |-> url, ttl |-> 0]

\* searchFlights({origin, destination, departureDate, adults, maxResults: 10})
searchFlights(origin, destination, departureDate) ==
    TokenCall(Url("amadeus", "/v2/shopping/flight-offers", origin, destination,
                  departureDate, Num(1), Num(10)))

\* searchAirports(keyword)
searchAirports(keyword) ==
    TokenCall(Url("amadeus", "/v1/reference-data/locations", keyword, EmptyStr,
                  EmptyStr, Num(10), NoParam))

\* An error message or error body: its words, and the caller input it quotes
Msg(words, quoted) == [words |-> words, arg |-> quoted]

NoMsg == Msg(<<>>, EmptyStr)

MsgNotConfigured ==
    Msg(<<"Amadeus", "API", "credentials", "not", "configured.", "Set",
          "AMADEUS_CLIENT_ID", "and", "AMADEUS_CLIENT_SECRET.">>, EmptyStr)

MsgAuthFailed(status) == Msg(<<"Amadeus", "auth", "failed:", status>>, EmptyStr)

MsgApiError(status) == Msg(<<"Amadeus", "API", "error:", status>>, EmptyStr)

MsgDbError(status) == Msg(<<"DB", "API", "Error:", status>>, EmptyStr)

MsgMotisError(status) == Msg(<<"MOTIS", "API", "Fehler:", status>>, EmptyStr)

\* what fetch rejects with when the network fails
MsgFetchFailed == Msg(<<"fetch", "failed">>, EmptyStr)

\* error.message?.includes('credentials'), on a message given as its words
\* faulty variant of the message test: every Amadeus failure taken for a
\* credentials failure (C6 rejects it)
MentionsCredentials_AnyAmadeus(msg) == \E i \in 1..Len(msg.words) : msg.words[i] = "Amadeus"

MentionsCredentials(msg) == \E i \in 1..Len(msg.words) : msg.words[i] = "credentials"

-----------------------------------------------------------------------------
(* pages/api/connections.ts: city coordinates *)

CITY_COORDS ==
    << << <<"b", "e", "r", "l", "i", "n">>, <<"52.5200,13.4050">> >>,
       << <<"h", "a", "m", "b", "u", "r", "g">>, <<"53.5511,9.9937">> >>,
       << <<"m", uUml, "n", "c", "h", "e", "n">>, <<"48.1351,11.5820">> >>,
       << <<"m", "u", "e", "n", "c", "h", "e", "n">>, <<"48.1351,11.5820">> >>,
       << <<"k", oUml, "l", "n">>, <<"50.9375,6.9603">> >>,
       << <<"k", "o", "e", "l", "n">>, <<"50.9375,6.9603">> >>,
       << <<"f", "r", "a", "n", "k", "f", "u", "r", "t">>, <<"50.1109,8.6821">> >>,
       << <<"d", uUml, "s", "s", "e", "l", "d", "o", "r", "f">>, <<"51.2277,6.7735">> >>,
       << <<"d", "u", "e", "s", "s", "e", "l", "d", "o", "r", "f">>, <<"51.2277,6.7735">> >>,
       << <<"s", "t", "u", "t", "t", "g", "a", "r", "t">>, <<"48.7758,9.1829">> >>,
       << <<"d", "o", "r", "t", "m", "u", "n", "d">>, <<"51.5136,7.4653">> >>,
       << <<"e", "s", "s", "e", "n">>, <<"51.4556,7.0116">> >>,
       << <<"l", "e", "i", "p", "z", "i", "g">>, <<"51.3397,12.3731">> >>,
       << <<"d", "r", "e", "s", "d", "e", "n">>, <<"51.0504,13.7373">> >>,
       << <<"h", "a", "n", "n", "o", "v", "e", "r">>, <<"52.3759,9.7320">> >>,
       << <<"n", uUml, "r", "n", "b", "e", "r", "g">>, <<"49.4521,11.0767">> >>,
       << <<"n", "u", "e", "r", "n", "b", "e", "r", "g">>, <<"49.4521,11.0767">> >>,
       << <<"b", "r", "e", "m", "e", "n">>, <<"53.0793,8.8017">> >> >>

MsgUnknownCity(input) ==
    Msg(<<"Unbekannte", "Stadt:", "${input}.", "Bitte", "Koordinaten", "angeben.">>, input)

\* resolveLocation(input): the coordinates, or the Error it throws
resolveLocation(input) ==
    LET normalized == trim(toLowerCase(input))
    IN  IF IsCoordPair(input) THEN [ok |-> TRUE, val |-> input, err |-> NoMsg]
        ELSE IF Truthy(Lookup(CITY_COORDS, normalized))
        THEN [ok |-> TRUE, val |-> Lookup(CITY_COORDS, normalized), err |-> NoMsg]
        ELSE [ok |-> FALSE, val |-> Undefined, err |-> MsgUnknownCity(input)]

-----------------------------------------------------------------------------
(* Requests *)

Slots == {1, 2}

NoUrl == Url("none", "", EmptyStr, EmptyStr, EmptyStr, NoParam, NoParam)

NoCall == [kind |-> "none", url |-> NoUrl, ttl |-> 0]

\* url.searchParams of an inbound request; Null is a parameter that is not given
NoParams ==
    [q |-> Null, limit |-> Null, station |-> Null, duration |-> Null, results |-> Null,
     from |-> Null, to |-> Null, when |-> Null, transfers |-> Null, date |-> Null]

NoResp == [status |-> 0, error |-> NoMsg, mock |-> FALSE, body |-> <<>>]

IdleReq ==
    [ep |-> "none", params |-> NoParams, pc |-> "idle", phase |-> "none", call |-> NoCall,
     stationId |-> EmptyStr, stationName |-> EmptyStr, fromId |-> EmptyStr, toId |-> EmptyStr,
     originCode |-> Undefined, destCode |-> Undefined, token |-> Null,
     calls |-> <<>>, rets |-> <<>>, out |-> <<>>, resp |-> NoResp]

\* return new Response(JSON.stringify(...), { status })
Respond(rq, status, error, mock, body) ==
    [rq EXCEPT !.pc = "done", !.call = NoCall,
               !.resp = [status |-> status, error |-> error, mock |-> mock, body |-> body]]

\* the handler reaches `await <client call>`
CallNext(rq, phase, call) == [rq EXCEPT !.pc = "call", !.phase = phase, !.call = call]

\* what a client call hands back to the handler: a value, or a thrown Error
Returned(data) == [ok |-> TRUE, data |-> data, err |-> NoMsg]

Thrown(err) == [ok |-> FALSE, data |-> <<>>, err |-> err]

-----------------------------------------------------------------------------
(* pages/api/transport/search.ts *)

MsgQRequired == Msg(<<"Query", "parameter", "q", "is", "required", "(min", "2", "characters)">>, EmptyStr)

\* faulty variant of the handler: the length of q not checked (C9 rejects it)
GET_transport_search_NoLength(rq) ==
    LET query == rq.params.q
        limit == parseInt(OrDefault(rq.params.limit, <<"1", "0">>))
    IN  IF Falsy(query)
        THEN Respond(rq, 400, MsgQRequired, FALSE, <<>>)
        ELSE CallNext(rq, "searchLocations", searchLocations(query, MathMin(limit, 20)))

GET_transport_search(rq) ==
    LET query == rq.params.q
        limit == parseInt(OrDefault(rq.params.limit, <<"1", "0">>))
    IN  IF Falsy(query) \/ Len(query) < 2
        THEN Respond(rq, 400, MsgQRequired, FALSE, <<>>)
        ELSE CallNext(rq, "searchLocations", searchLocations(query, MathMin(limit, 20)))

\* faulty variant of the handler: a failed station search tried once more (C18
\* rejects it)
After_transport_search_Retry(rq, r) ==
    IF r.ok THEN Respond(rq, 200, NoMsg, FALSE, r.data)
    ELSE IF Len(rq.rets) < 2 THEN CallNext(rq, "searchLocations", rq.calls[1])
    ELSE Respond(rq, 500, Msg(<<"Failed", "to", "search", "stations">>, EmptyStr), FALSE, <<>>)

After_transport_search(rq, r) ==
    IF r.ok THEN Respond(rq, 200, NoMsg, FALSE, r.data)
    ELSE Respond(rq, 500, Msg(<<"Failed", "to", "search", "stations">>, EmptyStr), FALSE, <<>>)

-----------------------------------------------------------------------------
(* pages/api/transport/departures.ts *)

MsgStationNotFound(token) == Msg(<<"Station", "not", "found:", "${token}">>, token)

\* faulty variant of the transform: the planned platform not required to exist
\* (C15 rejects it)
TransformDeparture_AnyDifference(dep) ==
    [platform |-> dep.platform, plannedPlatform |-> dep.plannedPlatform,
     platformChanged |-> dep.platform # dep.plannedPlatform,
     cancelled |-> dep.when = Null]

\* the departures.map(...) of the handler
TransformDeparture(dep) ==
    [platform |-> dep.platform, plannedPlatform |-> dep.plannedPlatform,
     platformChanged |-> dep.platform # dep.plannedPlatform /\ dep.plannedPlatform # Null,
     cancelled |-> dep.when = Null]

DeparturesCall(rq, stationId, stationName) ==
    LET duration == parseInt(OrDefault(rq.params.duration, <<"6", "0">>))
        results == parseInt(OrDefault(rq.params.results, <<"2", "0">>))
    IN  CallNext([rq EXCEPT !.stationId = stationId, !.stationName = stationName],
                 "getDepartures",
                 getDepartures(stationId, MathMin(duration, 720), MathMin(results, 50)))

GET_transport_departures(rq) ==
    LET station == rq.params.station
    IN  IF Falsy(station)
        THEN Respond(rq, 400, Msg(<<"Parameter", "station", "is", "required">>, EmptyStr), FALSE, <<>>)
        ELSE IF ~IsStationId(station)
        THEN CallNext(rq, "searchLocations", searchLocations(station, Num(1)))
        ELSE DeparturesCall(rq, station, station)

\* faulty variant of the handler: the search result ignored, the raw station
\* parameter queried (C3 rejects it)
After_transport_departures_RawStation(rq, r) ==
    IF ~r.ok
    THEN Respond(rq, 500, Msg(<<"Failed", "to", "fetch", "departures">>, EmptyStr), FALSE, <<>>)
    ELSE IF rq.phase = "searchLocations"
    THEN DeparturesCall(rq, rq.params.station, rq.params.station)
    ELSE Respond(rq, 200, NoMsg, FALSE,
                 [station |-> [id |-> rq.stationId, name |-> rq.stationName],
                  departures |-> [i \in 1..Len(r.data.departures) |->
                                     TransformDeparture(r.data.departures[i])],
                  updatedAt |-> r.data.realtimeDataUpdatedAt])

After_transport_departures(rq, r) ==
    IF ~r.ok
    THEN Respond(rq, 500, Msg(<<"Failed", "to", "fetch", "departures">>, EmptyStr), FALSE, <<>>)
    ELSE IF rq.phase = "searchLocations"
    THEN IF Len(r.data) = 0
         THEN Respond(rq, 404, MsgStationNotFound(rq.params.station), FALSE, <<>>)
         ELSE DeparturesCall(rq, r.data[1].id, r.data[1].name)
    ELSE Respond(rq, 200, NoMsg, FALSE,
                 [station |-> [id |-> rq.stationId, name |-> rq.stationName],
                  departures |-> [i \in 1..Len(r.data.departures) |->
                                     TransformDeparture(r.data.departures[i])],
                  updatedAt |-> r.data.realtimeDataUpdatedAt])

-----------------------------------------------------------------------------
(* pages/api/transport/journeys.ts *)

JourneysCall(rq, fromId, toId) ==
    LET results == parseInt(OrDefault(rq.params.results, <<"5">>))
        transfers == IF Truthy(rq.params.transfers) THEN parseInt(rq.params.transfers) ELSE NoParam
    IN  CallNext([rq EXCEPT !.fromId = fromId, !.toId = toId], "findJourneys",
                 findJourneys(fromId, toId, rq.params.when, MathMin(results, 10), transfers))

\* the second `if (!/^\d{7,8}$/.test(to))` block, reached with fromId settled
JourneysResolveTo(rq, fromId) ==
    IF ~IsStationId(rq.params.to)
    THEN CallNext([rq EXCEPT !.fromId = fromId], "searchTo", searchLocations(rq.params.to, Num(1)))
    ELSE JourneysCall(rq, fromId, rq.params.to)

GET_transport_journeys(rq) ==
    LET from == rq.params.from
        to == rq.params.to
    IN  IF Falsy(from) \/ Falsy(to)
        THEN Respond(rq, 400, Msg(<<"Parameters", "from", "and", "to", "are", "required">>, EmptyStr), FALSE, <<>>)
        ELSE IF ~IsStationId(from)
        THEN CallNext(rq, "searchFrom", searchLocations(from, Num(1)))
        ELSE JourneysResolveTo(rq, from)

After_transport_journeys(rq, r) ==
    IF ~r.ok
    THEN Respond(rq, 500, Msg(<<"Failed", "to", "find", "journeys">>, EmptyStr), FALSE, <<>>)
    ELSE IF rq.phase = "searchFrom"
    THEN IF Len(r.data) = 0
         THEN Respond(rq, 404, MsgStationNotFound(rq.params.from), FALSE, <<>>)
         ELSE JourneysResolveTo(rq, r.data[1].id)
    ELSE IF rq.phase = "searchTo"
    THEN IF Len(r.data) = 0
         THEN Respond(rq, 404, MsgStationNotFound(rq.params.to), FALSE, <<>>)
         ELSE JourneysCall(rq, rq.fromId, r.data[1].id)
    ELSE Respond(rq, 200, NoMsg, FALSE,
                 [i \in 1..Len(r.data.journeys) |->
                     [transfers |-> getTransferCount(r.data.journeys[i])]])

-----------------------------------------------------------------------------
(* pages/api/flights/search.ts *)

\* getMockFlights(from, to, date), basePrice being Math.floor(Math.random() * 150) + 50
\* faulty variant of the mock offers: all three direct (C5 rejects it)
getMockFlights_AllDirect(from, to, date, basePrice) ==
    << [id |-> "mock-1", price |-> basePrice, stops |-> 0, from |-> from, to |-> to, date |-> date],
       [id |-> "mock-2", price |-> basePrice - 20, stops |-> 0, from |-> from, to |-> to, date |-> date],
       [id |-> "mock-3", price |-> basePrice + 30, stops |-> 0, from |-> from, to |-> to, date |-> date] >>

getMockFlights(from, to, date, basePrice) ==
    << [id |-> "mock-1", price |-> basePrice, stops |-> 0, from |-> from, to |-> to, date |-> date],
       [id |-> "mock-2", price |-> basePrice - 20, stops |-> 1, from |-> from, to |-> to, date |-> date],
       [id |-> "mock-3", price |-> basePrice + 30, stops |-> 0, from |-> from, to |-> to, date |-> date] >>

\* getStops(itinerary)
getStops(itinerary) == Len(itinerary.segments) - 1

\* x + y of two JavaScript numbers
NumAdd(x, y) == IF x.k = "nan" \/ y.k = "nan" THEN NaN ELSE Num(x.v + y.v)

\* x * n of a JavaScript number and an integer literal
NumTimes(x, n) == IF x.k = "nan" THEN NaN ELSE Num(x.v * n)

RECURSIVE DigitRunLen(_)
\* the length of the run of digits a string starts with: what a greedy \d+ takes
DigitRunLen(s) == IF s = <<>> \/ Head(s) \notin Digits THEN 0 ELSE 1 + DigitRunLen(Tail(s))

\* the positions where "PT" starts in s
PTStarts(s) == { i \in 1..(Len(s) - 1) : s[i] = "P" /\ s[i + 1] = "T" }

\* getDurationMinutes(duration): duration.match(/PT(?:(\d+)H)?(?:(\d+)M)?/), each
\* group taken only when its digits are followed by its letter
getDurationMinutes(duration) ==
    IF PTStarts(duration) = {} THEN Num(0)
    ELSE LET r == SubSeq(duration, Min(PTStarts(duration)) + 2, Len(duration))
             n1 == DigitRunLen(r)
             hasH == n1 > 0 /\ Len(r) > n1 /\ r[n1 + 1] = "H"
             g1 == IF hasH THEN SubSeq(r, 1, n1) ELSE Undefined
             r2 == IF hasH THEN SubSeq(r, n1 + 2, Len(r)) ELSE r
             n2 == DigitRunLen(r2)
             hasM == n2 > 0 /\ Len(r2) > n2 /\ r2[n2 + 1] = "M"
             g2 == IF hasM THEN SubSeq(r2, 1, n2) ELSE Undefined
             hours == parseInt(OrDefault(g1, <<"0">>))
             minutes == parseInt(OrDefault(g2, <<"0">>))
         IN  NumAdd(NumTimes(hours, 60), minutes)

\* the reduce callback of transformFlightOffer:
\* parseInt(seg.duration.replace(/PT(\d+)H?(\d+)?M?/, (_, h, m) =>
\*     String(parseInt(h || '0') * 60 + parseInt(m || '0'))))
\* The first group is not tied to the letter H: it takes the first run of digits
\* after "PT" whatever letter follows.
SegmentMinutes(duration) ==
    LET starts == { i \in PTStarts(duration) :
                      i + 2 <= Len(duration) /\ duration[i + 2] \in Digits }
    IN  IF starts = {} THEN parseInt(duration)
        ELSE LET i == Min(starts)
                 r == SubSeq(duration, i + 2, Len(duration))
                 n1 == DigitRunLen(r)
                 h == SubSeq(r, 1, n1)
                 r1 == SubSeq(r, n1 + 1, Len(r))
                 r2 == IF r1 # <<>> /\ Head(r1) = "H" THEN Tail(r1) ELSE r1
                 n2 == DigitRunLen(r2)
                 m == IF n2 > 0 THEN SubSeq(r2, 1, n2) ELSE Undefined
                 r3 == SubSeq(r2, n2 + 1, Len(r2))
                 rest == IF r3 # <<>> /\ Head(r3) = "M" THEN Tail(r3) ELSE r3
                 total == NumAdd(NumTimes(parseInt(OrDefault(h, <<"0">>)), 60),
                                 parseInt(OrDefault(m, <<"0">>)))
             IN  parseInt(SubSeq(duration, 1, i - 1) \o NumberToString(total.v) \o rest)

RECURSIVE SumSegmentMinutes(_)
\* outbound.segments.reduce((sum, seg) => sum + ..., 0)
SumSegmentMinutes(segments) ==
    IF segments = <<>> THEN Num(0)
    ELSE NumAdd(SumSegmentMinutes(SubSeq(segments, 1, Len(segments) - 1)),
                SegmentMinutes(segments[Len(segments)].duration))

\* transformFlightOffer(offer): the outbound itinerary only
transformFlightOffer(offer) ==
    [id |-> offer.id,
     stops |-> getStops(offer.itineraries[1]),
     durationMinutes |-> SumSegmentMinutes(offer.itineraries[1].segments)]

MsgUnknownOrigin(from) ==
    Msg(<<"Unknown", "origin", "airport:", "${from}.", "Use", "IATA", "code", "(e.g.,", "FRA,", "MUC).">>, from)

MsgUnknownDestination(to) ==
    Msg(<<"Unknown", "destination", "airport:", "${to}.", "Use", "IATA", "code", "(e.g.,", "FRA,", "MUC).">>, to)

\* faulty variant of the handler: the destination checked before the origin
\* (C7 rejects it)
GET_flights_search_DestFirst(rq, e, basePrice) ==
    LET from == rq.params.from
        to == rq.params.to
        date == rq.params.date
        originCode == getAirportCode(from)
        destCode == getAirportCode(to)
        rq1 == [rq EXCEPT !.originCode = originCode, !.destCode = destCode]
    IN  IF Falsy(from) \/ Falsy(to) \/ Falsy(date)
        THEN Respond(rq, 400, Msg(<<"Parameters", "from,", "to,", "and", "date", "are", "required">>, EmptyStr), FALSE, <<>>)
        ELSE IF Falsy(destCode)
        THEN Respond(rq1, 400, MsgUnknownDestination(to), FALSE, <<>>)
        ELSE IF Falsy(originCode)
        THEN Respond(rq1, 400, MsgUnknownOrigin(from), FALSE, <<>>)
        ELSE IF ~isAmadeusConfigured(e)
        THEN Respond(rq1, 200, NoMsg, TRUE, getMockFlights(originCode, destCode, date, basePrice))
        ELSE CallNext(rq1, "searchFlights", searchFlights(originCode, destCode, date))

GET_flights_search(rq, e, basePrice) ==
    LET from == rq.params.from
        to == rq.params.to
        date == rq.params.date
        originCode == getAirportCode(from)
        destCode == getAirportCode(to)
        rq1 == [rq EXCEPT !.originCode = originCode, !.destCode = destCode]
    IN  IF Falsy(from) \/ Falsy(to) \/ Falsy(date)
        THEN Respond(rq, 400, Msg(<<"Parameters", "from,", "to,", "and", "date", "are", "required">>, EmptyStr), FALSE, <<>>)
        ELSE IF Falsy(originCode)
        THEN Respond(rq1, 400, MsgUnknownOrigin(from), FALSE, <<>>)
        ELSE IF Falsy(destCode)
        THEN Respond(rq1, 400, MsgUnknownDestination(to), FALSE, <<>>)
        ELSE IF ~isAmadeusConfigured(e)
        THEN Respond(rq1, 200, NoMsg, TRUE, getMockFlights(originCode, destCode, date, basePrice))
        ELSE CallNext(rq1, "searchFlights", searchFlights(originCode, destCode, date))

After_flights_search(rq, r, basePrice) ==
    IF r.ok
    THEN Respond(rq, 200, NoMsg, FALSE,
                 [i \in 1..Len(r.data.data) |-> transformFlightOffer(r.data.data[i])])
    ELSE IF MentionsCredentials(r.err)
    THEN Respond(rq, 200, NoMsg, TRUE,
                 getMockFlights(rq.originCode, rq.destCode, rq.params.date, basePrice))
    ELSE Respond(rq, 500, Msg(<<"Failed", "to", "search", "flights">>, EmptyStr), FALSE, <<>>)

-----------------------------------------------------------------------------
(* pages/api/flights/airports.ts *)

\* internationalAirports of searchLocalAirports
INTERNATIONAL_AIRPORTS ==
    << [name |-> <<"L", "o", "n", "d", "o", "n", " ", "H", "e", "a", "t", "h", "r", "o", "w", " ", "A", "i", "r", "p", "o", "r", "t">>,
        iataCode |-> <<"L", "H", "R">>, city |-> <<"L", "o", "n", "d", "o", "n">>],
       [name |-> <<"P", "a", "r", "i", "s", " ", "C", "h", "a", "r", "l", "e", "s", " ", "d", "e", " ", "G", "a", "u", "l", "l", "e", " ", "A", "i", "r", "p", "o", "r", "t">>,
        iataCode |-> <<"C", "D", "G">>, city |-> <<"P", "a", "r", "i", "s">>],
       [name |-> <<"A", "m", "s", "t", "e", "r", "d", "a", "m", " ", "A", "i", "r", "p", "o", "r", "t", " ", "S", "c", "h", "i", "p", "h", "o", "l">>,
        iataCode |-> <<"A", "M", "S">>, city |-> <<"A", "m", "s", "t", "e", "r", "d", "a", "m">>],
       [name |-> <<"M", "a", "d", "r", "i", "d", " ", "B", "a", "r", "a", "j", "a", "s", " ", "A", "i", "r", "p", "o", "r", "t">>,
        iataCode |-> <<"M", "A", "D">>, city |-> <<"M", "a", "d", "r", "i", "d">>],
       [name |-> <<"B", "a", "r", "c", "e", "l", "o", "n", "a", " ", "E", "l", " ", "P", "r", "a", "t", " ", "A", "i", "r", "p", "o", "r", "t">>,
        iataCode |-> <<"B", "C", "N">>, city |-> <<"B", "a", "r", "c", "e", "l", "o", "n", "a">>],
       [name |-> <<"R", "o", "m", "e", " ", "F", "i", "u", "m", "i", "c", "i", "n", "o", " ", "A", "i", "r", "p", "o", "r", "t">>,
        iataCode |-> <<"F", "C", "O">>, city |-> <<"R", "o", "m", "e">>],
       [name |-> <<"V", "i", "e", "n", "n", "a", " ", "I", "n", "t", "e", "r", "n", "a", "t", "i", "o", "n", "a", "l", " ", "A", "i", "r", "p", "o", "r", "t">>,
        iataCode |-> <<"V", "I", "E">>, city |-> <<"V", "i", "e", "n", "n", "a">>],
       [name |-> <<"Z", "u", "r", "i", "c", "h", " ", "A", "i", "r", "p", "o", "r", "t">>,
        iataCode |-> <<"Z", "R", "H">>, city |-> <<"Z", "u", "r", "i", "c", "h">>] >>

\* the entry searchLocalAirports pushes for a city of GERMAN_AIRPORTS
GermanAirport(i) ==
    [name |-> GERMAN_AIRPORTS[i][1] \o <<" ", "A", "i", "r", "p", "o", "r", "t">>,
     iataCode |-> GERMAN_AIRPORTS[i][2], city |-> GERMAN_AIRPORTS[i][1]]

\* results.slice(0, n)
Slice(results, n) == SubSeq(results, 1, IF Len(results) < n THEN Len(results) ELSE n)

\* faulty variant of the local search: the result not cut (C17_LocalCap rejects it)
searchLocalAirports_Uncut(query) ==
    LET normalized == toLowerCase(query)
        german(a) == \/ includes(toLowerCase(a.city), normalized)
                     \/ includes(toLowerCase(a.iataCode), normalized)
        international(a) == \/ includes(toLowerCase(a.name), normalized)
                            \/ includes(toLowerCase(a.iataCode), normalized)
                            \/ includes(toLowerCase(a.city), normalized)
    IN  SelectSeq([i \in 1..Len(GERMAN_AIRPORTS) |-> GermanAirport(i)], german)
        \o SelectSeq(INTERNATIONAL_AIRPORTS, international)

\* searchLocalAirports(query): the German cities matching by city or code, then the
\* international airports matching by name, code or city, at most 10 in all
searchLocalAirports(query) ==
    LET normalized == toLowerCase(query)
        german(a) == \/ includes(toLowerCase(a.city), normalized)
                     \/ includes(toLowerCase(a.iataCode), normalized)
        international(a) == \/ includes(toLowerCase(a.name), normalized)
                            \/ includes(toLowerCase(a.iataCode), normalized)
                            \/ includes(toLowerCase(a.city), normalized)
    IN  Slice(SelectSeq([i \in 1..Len(GERMAN_AIRPORTS) |-> GermanAirport(i)], german)
              \o SelectSeq(INTERNATIONAL_AIRPORTS, international), 10)

\* the response of the local fallback search
LocalAirports(query) ==
    LET found == searchLocalAirports(query)
    IN  [local |-> TRUE, query |-> query,
         results |-> [i \in 1..Len(found) |-> found[i].iataCode]]

GET_flights_airports(rq, e) ==
    LET query == rq.params.q
    IN  IF Falsy(query) \/ Len(query) < 2
        THEN Respond(rq, 400, MsgQRequired, FALSE, <<>>)
        ELSE IF ~isAmadeusConfigured(e)
        THEN Respond(rq, 200, NoMsg, FALSE, LocalAirports(query))
        ELSE CallNext(rq, "searchAirports", searchAirports(query))

\* faulty variant of the handler: an error of the lookup answered 500 (C17 rejects it)
After_flights_airports_NoFallback(rq, r) ==
    IF r.ok
    THEN Respond(rq, 200, NoMsg, FALSE,
                 [local |-> FALSE, query |-> rq.params.q,
                  results |-> [i \in 1..Len(r.data.data) |-> r.data.data[i].iataCode]])
    ELSE Respond(rq, 500, r.err, FALSE, <<>>)

After_flights_airports(rq, r) ==
    IF r.ok
    THEN Respond(rq, 200, NoMsg, FALSE,
                 [local |-> FALSE, query |-> rq.params.q,
                  results |-> [i \in 1..Len(r.data.data) |-> r.data.data[i].iataCode]])
    ELSE Respond(rq, 200, NoMsg, FALSE, LocalAirports(rq.params.q))

-----------------------------------------------------------------------------
(* pages/api/connections.ts *)

\* `${MOTIS_BASE_URL}/plan?fromPlace=..&toPlace=..&time=..`; date defaults to today
PlanUrl(fromCoords, toCoords, date) ==
    Url("motis", "/plan", fromCoords, toCoords, OrDefault(date, <<"#today">>), NoParam, NoParam)

GET_connections(rq) ==
    LET from == rq.params.from
        to == rq.params.to
    IN  IF Falsy(from) \/ Falsy(to)
        THEN Respond(rq, 400, Msg(<<"Parameter", "from", "und", "to", "sind", "erforderlich">>, EmptyStr), FALSE, <<>>)
        ELSE IF ~resolveLocation(from).ok
        THEN Respond(rq, 500, resolveLocation(from).err, FALSE, <<>>)
        ELSE IF ~resolveLocation(to).ok
        THEN Respond(rq, 500, resolveLocation(to).err, FALSE, <<>>)
        ELSE CallNext(rq, "plan",
                      HttpCall(PlanUrl(resolveLocation(from).val, resolveLocation(to).val,
                                       rq.params.date)))

After_connections(rq, r) ==
    IF r.ok
    THEN Respond(rq, 200, NoMsg, FALSE,
                 [von |-> rq.params.from, nach |-> rq.params.to,
                  anzahl |-> IF Len(r.data) < 5 THEN Len(r.data) ELSE 5])
    ELSE Respond(rq, 500, r.err, FALSE, <<>>)

-----------------------------------------------------------------------------
(* The providers: what an outbound call can come back with *)

Id7 == <<"8", "0", "1", "1", "1", "6", "0">>
Id8 == <<"8", "0", "0", "0", "2", "6", "1", "0">>
Digits6 == <<"1", "2", "3", "4", "5", "6">>
Digits9 == <<"1", "2", "3", "4", "5", "6", "7", "8", "9">>
sBerlin == <<"B", "e", "r", "l", "i", "n">>
sAtlantis == <<"A", "t", "l", "a", "n", "t", "i", "s">>
sConstructor == <<"c", "o", "n", "s", "t", "r", "u", "c", "t", "o", "r">>
sDate == <<"2", "0", "2", "6", "-", "0", "3", "-", "0", "1">>

StopA == [id |-> Id7, name |-> <<"B", "e", "r", "l", "i", "n", " ", "H", "b", "f">>]

LocationPayloads == { <<>>, <<StopA>> }

DeparturePayloads ==
    { [departures |-> <<>>, realtimeDataUpdatedAt |-> 1],
      [departures |-> << [platform |-> <<"7">>, plannedPlatform |-> <<"5">>, when |-> <<"t">>],
                         [platform |-> <<"3">>, plannedPlatform |-> <<"3">>, when |-> Null] >>,
       realtimeDataUpdatedAt |-> 2] }

JourneyPayloads ==
    { [journeys |-> <<>>],
      [journeys |-> << [legs |-> << [walking |-> TRUE], [walking |-> FALSE],
                                    [walking |-> TRUE], [walking |-> FALSE] >>] >>] }

DbPayloads(url) ==
    CASE url.path = "/locations" -> LocationPayloads
      [] url.path = "/stops/:id/departures" -> DeparturePayloads
      [] url.path = "/journeys" -> JourneyPayloads

OfferPayloads ==
    { [data |-> <<>>],
      [data |-> << [id |-> "1",
                    itineraries |-> << [segments |-> << [duration |-> <<"P", "T", "1", "H", "5", "M">>],
                                                        [duration |-> <<"P", "T", "5", "0", "M">>] >>] >>] >>] }

AirportPayloads == { [data |-> <<>>], [data |-> << [iataCode |-> <<"M", "U", "C">>] >>] }

PlanPayloads == { <<>>, << [transfers |-> 0] >> }

HttpPayloads(url) ==
    CASE url.path = "/v2/shopping/flight-offers" -> OfferPayloads
      [] url.path = "/v1/reference-data/locations" -> AirportPayloads
      [] url.path = "/plan" -> PlanPayloads

\* the token endpoint's { access_token, expires_in (seconds) }
TokenResponses ==
    { [access_token |-> <<"t", "o", "k", "1">>, expires_in |-> 30],
      [access_token |-> <<"t", "o", "k", "2">>, expires_in |-> 120] }

FailureStatuses == { "500" }

\* the error_description of a failed flight-provider response ({} when it has none)
ErrorDescriptions ==
    { <<>>, <<"Client", "credentials", "are", "invalid">>, <<"Too", "many", "requests">> }

\* amadeusRequest: error.error_description || `Amadeus API error: ${status}`;
\* connections: `MOTIS API Fehler: ${status}`
HttpError(url, status, desc) ==
    IF url.base = "amadeus"
    THEN IF desc # <<>> THEN Msg(desc, EmptyStr) ELSE MsgApiError(status)
    ELSE MsgMotisError(status)

MockBasePrices == { 50, 199 }

Rnd(ep) == IF ep = "flights" THEN MockBasePrices ELSE { 0 }

-----------------------------------------------------------------------------
(* The event loop *)

Ev(type, s, url, data) == [type |-> type, slot |-> s, url |-> url, data |-> data]

\* the handler's code from its entry to its first await or its response
Enter(rq, e, basePrice) ==
    CASE rq.ep = "search" -> GET_transport_search(rq)
      [] rq.ep = "departures" -> GET_transport_departures(rq)
      [] rq.ep = "journeys" -> GET_transport_journeys(rq)
      [] rq.ep = "flights" -> GET_flights_search(rq, e, basePrice)
      [] rq.ep = "airports" -> GET_flights_airports(rq, e)
      [] rq.ep = "connections" -> GET_connections(rq)

\* the handler's code after an await, given what the awaited call produced
After(rq, r, basePrice) ==
    CASE rq.ep = "search" -> After_transport_search(rq, r)
      [] rq.ep = "departures" -> After_transport_departures(rq, r)
      [] rq.ep = "journeys" -> After_transport_journeys(rq, r)
      [] rq.ep = "flights" -> After_flights_search(rq, r, basePrice)
      [] rq.ep = "airports" -> After_flights_airports(rq, r)
      [] rq.ep = "connections" -> After_connections(rq, r)

\* the awaited call produced r: the handler resumes with it
Resume(rq, r, basePrice) == After([rq EXCEPT !.rets = Append(@, r)], r, basePrice)

RECURSIVE Run(_, _, _, _, _, _, _, _, _)
\* Runs request rq of slot s until it awaits an outbound call or has responded;
\* a request that has responded leaves its slot, and the "respond" event carries
\* it.  c, tok, expiry, e and t are the cache, the token state, the environment
\* and Date.now() of this run; evs collects what it does.  rq.calls lists the
\* client calls the handler made, rq.rets what they produced, rq.out the outbound
\* HTTP requests sent for it.
Run(rq, evs, s, c, tok, expiry, e, t, basePrice) ==
    IF rq.pc = "done" THEN [rq |-> IdleReq, ev |-> Append(evs, Ev("respond", s, NoUrl, rq))]
    ELSE IF rq.pc = "await" THEN [rq |-> rq, ev |-> evs]
    ELSE IF rq.call.kind = "db"
    THEN \* fetchWithCache(url, ttl)
         IF CacheHit(c, rq.call.url, t)
         THEN Run(Resume([rq EXCEPT !.calls = Append(@, rq.call)],
                         Returned(c[rq.call.url].data), basePrice),
                  Append(evs, Ev("hit", s, rq.call.url, c[rq.call.url].data)),
                  s, c, tok, expiry, e, t, basePrice)
         ELSE [rq |-> [rq EXCEPT !.pc = "await", !.calls = Append(@, rq.call),
                                 !.out = Append(@, rq.call.url)],
               ev |-> Append(evs, Ev("fetch", s, rq.call.url, <<>>))]
    ELSE IF rq.call.kind = "token"
    THEN \* getAccessToken(), then the fetch of amadeusRequest
         IF CredentialsMissing(e)
         THEN Run(Resume([rq EXCEPT !.calls = Append(@, rq.call)],
                         Thrown(MsgNotConfigured), basePrice),
                  evs, s, c, tok, expiry, e, t, basePrice)
         ELSE IF TokenValid(tok, expiry, t)
         THEN Run([rq EXCEPT !.calls = Append(@, rq.call), !.call = HttpCall(rq.call.url),
                             !.token = tok],
                  Append(evs, Ev("tokenReuse", s, TokenUrl, tok)),
                  s, c, tok, expiry, e, t, basePrice)
         ELSE [rq |-> [rq EXCEPT !.pc = "await", !.calls = Append(@, rq.call),
                                 !.out = Append(@, TokenUrl)],
               ev |-> Append(evs, Ev("fetch", s, TokenUrl, <<>>))]
    ELSE \* a plain fetch(url): the endpoint of amadeusRequest, or the journey planner
         [rq |-> [rq EXCEPT !.pc = "await",
                            !.calls = IF rq.ep = "connections" THEN Append(@, rq.call) ELSE @,
                            !.out = Append(@, rq.call.url)],
          ev |-> Append(evs, Ev("fetch", s, rq.call.url, <<>>))]

-----------------------------------------------------------------------------
(* Inbound requests *)

sMuc == <<"m", "u", "c">>
sKoeln == <<"K", "o", "e", "l", "n", " ">>
sCoords == <<"5", "2", ".", "5", ",", "1", "3", ".", "4">>

InboundDb ==
    { [ep |-> "search", params |-> [NoParams EXCEPT !.q = q] ] : q \in { Null, <<"a">> } }
    \cup { [ep |-> "search", params |-> [NoParams EXCEPT !.q = <<"B", "e">>, !.limit = <<"5", "0">>] ] }
    \cup { [ep |-> "departures", params |-> [NoParams EXCEPT !.station = st] ] :
        st \in { Null, sBerlin } }
    \cup { [ep |-> "departures",
            params |-> [NoParams EXCEPT !.station = Id7, !.duration = <<"1", "0", "0", "0">>,
                                        !.results = <<"1", "0", "0">>] ] }
    \cup { [ep |-> "journeys", params |-> [NoParams EXCEPT !.from = ft[1], !.to = ft[2]] ] :
        ft \in { <<Null, sBerlin>>, <<sBerlin, Null>>, <<Digits6, sBerlin>>,
                 <<Id7, Digits9>>, <<sBerlin, Id8>> } }

InboundAmadeus ==
    { [ep |-> "flights", params |-> [NoParams EXCEPT !.from = x[1], !.to = x[2], !.date = x[3]] ] :
        x \in { <<Null, sMuc, sDate>>, <<sBerlin, Null, sDate>>, <<sBerlin, sMuc, Null>>,
                <<sAtlantis, sMuc, sDate>>, <<sAtlantis, sAtlantis, sDate>>,
                <<sBerlin, sAtlantis, sDate>>, <<sBerlin, sMuc, sDate>>,
                <<sConstructor, sMuc, sDate>> } }
    \cup { [ep |-> "airports", params |-> [NoParams EXCEPT !.q = q] ] :
        q \in { Null, <<"m">>, <<"m", "u">>, <<"r", "t">> } }

InboundMotis ==
    { [ep |-> "connections", params |-> [NoParams EXCEPT !.from = f, !.to = t] ] :
        f \in { Null, sCoords, sBerlin, sAtlantis }, t \in { Null, sKoeln, sAtlantis } }

Inbound(p) ==
    CASE p = "db" -> InboundDb
      [] p = "amadeus" -> InboundAmadeus
      [] p = "motis" -> InboundMotis

EnvNone == [AMADEUS_CLIENT_ID |-> Undefined, AMADEUS_CLIENT_SECRET |-> Undefined]
EnvOnlyId == [AMADEUS_CLIENT_ID |-> <<"i", "d">>, AMADEUS_CLIENT_SECRET |-> Undefined]
EnvBoth == [AMADEUS_CLIENT_ID |-> <<"i", "d">>, AMADEUS_CLIENT_SECRET |-> <<"s">>]

-----------------------------------------------------------------------------
(* Bounds *)

\* inbound requests accepted in one run
MaxRequests == 2

\* clock ticks in one run
MaxTicks == 2

\* the clock advances in steps of the shortest TTL, so that a read falls before,
\* exactly at and after every expiry
TickMs == 30 * 1000

-----------------------------------------------------------------------------
(* The state machine *)

\* The three providers' clients share no state (the cache is db-transport.ts's,
\* the token amadeus-flights.ts's, connections.ts keeps none), so a run takes the
\* inbound traffic of one of them.
Init ==
    /\ now = 0
    /\ cache = [u \in {} |-> Null]
    /\ accessToken = Null
    /\ tokenExpiry = 0
    /\ provider \in { "db", "amadeus", "motis" }
    /\ env \in (IF provider = "amadeus" THEN { EnvNone, EnvOnlyId, EnvBoth } ELSE { EnvNone })
    /\ req = [s \in Slots |-> IdleReq]
    /\ started = 0
    /\ ev = <<>>
    /\ fn = "none"
    /\ arg = <<>>
    /\ res = <<>>

Free(s) == req[s].pc = "idle"

\* An inbound GET arrives and its handler runs to its first await or response.
StartRequest(s) ==
    /\ started < MaxRequests
    /\ Free(s)
    /\ \A s2 \in Slots : Free(s2) => s <= s2
    /\ \E in \in Inbound(provider) : \E basePrice \in Rnd(in.ep) :
        LET rq0 == [IdleReq EXCEPT !.ep = in.ep, !.params = in.params]
            run == Run(Enter(rq0, env, basePrice), <<>>, s, cache, accessToken,
                       tokenExpiry, env, now, basePrice)
        IN  /\ req' = [req EXCEPT ![s] = run.rq]
            /\ ev' = run.ev
    /\ started' = started + 1
    /\ UNCHANGED <<now, cache, accessToken, tokenExpiry, env, provider, fn, arg, res>>

Awaiting(s, kind) == req[s].pc = "await" /\ req[s].call.kind = kind

\* fetchWithCache: the fetch resolves with response.ok; the body is stored and returned.
FetchWithCacheOk(s) ==
    /\ Awaiting(s, "db")
    /\ \E data \in DbPayloads(req[s].call.url) :
        LET url == req[s].call.url
            c2 == CacheStore(cache, url, data, req[s].call.ttl, now)
            run == Run(Resume(req[s], Returned(data), 0), <<Ev("store", s, url, data)>>,
                       s, c2, accessToken, tokenExpiry, env, now, 0)
        IN  /\ cache' = c2
            /\ req' = [req EXCEPT ![s] = run.rq]
            /\ ev' = run.ev
    /\ UNCHANGED <<now, accessToken, tokenExpiry, env, provider, started, fn, arg, res>>

\* faulty variant of the failure path: the failure is remembered in the cache for
\* the call's TTL (C23 rejects it)
FetchWithCacheFail_Remembered(s) ==
    /\ Awaiting(s, "db")
    /\ \E err \in { MsgDbError(st) : st \in FailureStatuses } \cup { MsgFetchFailed } :
        LET c2 == CacheStore(cache, req[s].call.url, <<>>, req[s].call.ttl, now)
            run == Run(Resume(req[s], Thrown(err), 0), <<Ev("fail", s, req[s].call.url, <<>>)>>,
                       s, c2, accessToken, tokenExpiry, env, now, 0)
        IN  /\ cache' = c2
            /\ req' = [req EXCEPT ![s] = run.rq]
            /\ ev' = run.ev
    /\ UNCHANGED <<now, accessToken, tokenExpiry, env, provider, started, fn, arg, res>>

\* fetchWithCache: the fetch rejects, or resolves with !response.ok; the Error is thrown.
FetchWithCacheFail(s) ==
    /\ Awaiting(s, "db")
    /\ \E err \in { MsgDbError(st) : st \in FailureStatuses } \cup { MsgFetchFailed } :
        LET run == Run(Resume(req[s], Thrown(err), 0), <<Ev("fail", s, req[s].call.url, <<>>)>>,
                       s, cache, accessToken, tokenExpiry, env, now, 0)
        IN  /\ req' = [req EXCEPT ![s] = run.rq]
            /\ ev' = run.ev
    /\ UNCHANGED <<now, cache, accessToken, tokenExpiry, env, provider, started, fn, arg, res>>

\* getAccessToken: the token response is ok; the token and its expiry are replaced
\* and amadeusRequest goes on to fetch the endpoint.
TokenOk(s) ==
    /\ Awaiting(s, "token")
    /\ \E data \in TokenResponses :
        LET run == Run([req[s] EXCEPT !.pc = "call", !.call = HttpCall(req[s].call.url),
                                      !.token = data.access_token],
                       <<Ev("tokenStore", s, TokenUrl, data)>>,
                       s, cache, data.access_token, now + data.expires_in * 1000, env, now, 0)
        IN  /\ accessToken' = data.access_token
            /\ tokenExpiry' = now + data.expires_in * 1000
            /\ req' = [req EXCEPT ![s] = run.rq]
            /\ ev' = run.ev
    /\ UNCHANGED <<now, cache, env, provider, started, fn, arg, res>>

\* faulty variant of the failure path: the failure drops the cached token and
\* keeps its expiry (C24 rejects it)
TokenFail_DropsToken(s) ==
    /\ Awaiting(s, "token")
    /\ \E err \in { MsgAuthFailed(st) : st \in FailureStatuses } \cup { MsgFetchFailed } :
       \E basePrice \in Rnd(req[s].ep) :
        LET run == Run(Resume(req[s], Thrown(err), basePrice),
                       <<Ev("fail", s, TokenUrl, <<>>)>>,
                       s, cache, Null, tokenExpiry, env, now, basePrice)
        IN  /\ accessToken' = Null
            /\ req' = [req EXCEPT ![s] = run.rq]
            /\ ev' = run.ev
    /\ UNCHANGED <<now, cache, tokenExpiry, env, provider, started, fn, arg, res>>

\* getAccessToken: the token fetch rejects or is not ok; the Error reaches the handler.
TokenFail(s) ==
    /\ Awaiting(s, "token")
    /\ \E err \in { MsgAuthFailed(st) : st \in FailureStatuses } \cup { MsgFetchFailed } :
       \E basePrice \in Rnd(req[s].ep) :
        LET run == Run(Resume(req[s], Thrown(err), basePrice),
                       <<Ev("fail", s, TokenUrl, <<>>)>>,
                       s, cache, accessToken, tokenExpiry, env, now, basePrice)
        IN  /\ req' = [req EXCEPT ![s] = run.rq]
            /\ ev' = run.ev
    /\ UNCHANGED <<now, cache, accessToken, tokenExpiry, env, provider, started, fn, arg, res>>

\* amadeusRequest / connections: the fetch resolves with response.ok.
HttpOk(s) ==
    /\ Awaiting(s, "http")
    /\ \E data \in HttpPayloads(req[s].call.url) :
        LET run == Run(Resume(req[s], Returned(data), 0), <<Ev("ok", s, req[s].call.url, <<>>)>>,
                       s, cache, accessToken, tokenExpiry, env, now, 0)
        IN  /\ req' = [req EXCEPT ![s] = run.rq]
            /\ ev' = run.ev
    /\ UNCHANGED <<now, cache, accessToken, tokenExpiry, env, provider, started, fn, arg, res>>

\* amadeusRequest / connections: the fetch rejects or resolves with !response.ok.
HttpFail(s) ==
    /\ Awaiting(s, "http")
    /\ \E err \in { HttpError(req[s].call.url, st, d) : st \in FailureStatuses, d \in ErrorDescriptions }
                  \cup { MsgFetchFailed } :
       \E basePrice \in Rnd(req[s].ep) :
        LET run == Run(Resume(req[s], Thrown(err), basePrice),
                       <<Ev("fail", s, req[s].call.url, <<>>)>>,
                       s, cache, accessToken, tokenExpiry, env, now, basePrice)
        IN  /\ req' = [req EXCEPT ![s] = run.rq]
            /\ ev' = run.ev
    /\ UNCHANGED <<now, cache, accessToken, tokenExpiry, env, provider, started, fn, arg, res>>

\* Time passes.
Tick ==
    /\ now < MaxTicks * TickMs
    /\ now' = now + TickMs
    /\ ev' = <<>>
    /\ UNCHANGED <<cache, accessToken, tokenExpiry, env, provider, req, started, fn, arg, res>>

Next ==
    \/ \E s \in Slots : StartRequest(s)
    \/ \E s \in Slots : FetchWithCacheOk(s)
    \/ \E s \in Slots : FetchWithCacheFail(s)
    \/ \E s \in Slots : TokenOk(s)
    \/ \E s \in Slots : TokenFail(s)
    \/ \E s \in Slots : HttpOk(s)
    \/ \E s \in Slots : HttpFail(s)
    \/ Tick

Spec == Init /\ [][Next]_vars

-----------------------------------------------------------------------------
(* pure-function harness *)

PureAlphabet == {"m", "u", "c", "X", szlig}

\* the longest generated input
MaxInputLen == 3

GeneratedInputs == UNION { [1..n -> PureAlphabet] : n \in 0..MaxInputLen }

NamedInputs ==
    { GERMAN_AIRPORTS[i][1] : i \in 1..Len(GERMAN_AIRPORTS) }
    \cup { toLowerCase(GERMAN_AIRPORTS[i][1]) : i \in 1..Len(GERMAN_AIRPORTS) }
    \cup ObjectPrototypeKeys
    \cup { <<"X", "Y", "Z">>, <<"M", "U", "C">>, <<"r", "a", "n">>,
           <<"N", "o", "n", "e", "x", "i", "s", "t", "e", "n", "t", "c", "i", "t", "y">>,
           <<"M", "u", "e", "n", "c", "h", "e", "n">>,
           <<"B", "e", "r", "l", "i", "n", " ", "T", "e", "g", "e", "l">>,
           <<"a", "1", "c">>, <<"a", "b", "c", "d">> }

AirportInputs == GeneratedInputs \cup NamedInputs

\* the u-umlaut style letters written as two ASCII letters
AsciiChar(c) ==
    CASE c = aUml -> <<"a", "e">> [] c = oUml -> <<"o", "e">> [] c = uUml -> <<"u", "e">>
      [] c = AUml -> <<"A", "e">> [] c = OUml -> <<"O", "e">> [] c = UUml -> <<"U", "e">>
      [] OTHER -> <<c>>

RECURSIVE Transliterate(_)
Transliterate(s) ==
    IF s = <<>> THEN <<>> ELSE AsciiChar(Head(s)) \o Transliterate(Tail(s))

\* the longest run of whitespace put around a city name
MaxPad == 1

Pads == UNION { [1..n -> {" ", "\t"}] : n \in 0..MaxPad }

FlipChar(c) == IF LowerChar(c) # c THEN LowerChar(c) ELSE UpperChar(c)[1]

\* a name in its own, lower, upper case and with one letter's case flipped
CaseVariants(n) ==
    {n, toLowerCase(n), toUpperCase(n)}
    \cup { [n EXCEPT ![i] = FlipChar(n[i])] : i \in 1..Len(n) }

Variants(n) == { l \o c \o r : l \in Pads, r \in Pads, c \in CaseVariants(n) }

\* the city names of GERMAN_AIRPORTS, as written and in ASCII, in every variant
AirportNameInputs ==
    UNION { Variants(GERMAN_AIRPORTS[i][1]) \cup Variants(Transliterate(GERMAN_AIRPORTS[i][1])) :
              i \in 1..Len(GERMAN_AIRPORTS) }

\* the city names of CITY_COORDS in every variant, a coordinate pair, an unknown city
LocationInputs ==
    UNION { Variants(CITY_COORDS[i][1]) : i \in 1..Len(CITY_COORDS) }
    \cup { <<"5", "2", ".", "5", ",", "1", "3", ".", "4">>, <<"A", "t", "l", "a", "n", "t", "i", "s">> }

\* the hour and minute counts of the generated segment durations
HourValues == {0, 1, 2, 12}

MinuteValues == {0, 5, 45}

\* the provider's duration encoding of x hours (PTxH), y minutes (PTyM), both (PTxHyM)
DurationPTxH(x) == <<"P", "T">> \o NumberToString(x) \o <<"H">>

DurationPTyM(y) == <<"P", "T">> \o NumberToString(y) \o <<"M">>

DurationPTxHyM(x, y) == <<"P", "T">> \o NumberToString(x) \o <<"H">> \o NumberToString(y) \o <<"M">>

SegmentDurations ==
    { DurationPTxH(x) : x \in HourValues }
    \cup { DurationPTyM(y) : y \in MinuteValues }
    \cup { DurationPTxHyM(x, y) : x \in HourValues, y \in MinuteValues }

\* the most segments of a generated itinerary
MaxSegments == 2

\* flight offers whose outbound itinerary has 1..MaxSegments segments
OfferInputs ==
    { [id |-> "1", itineraries |-> << [segments |-> [i \in 1..n |-> [duration |-> d[i]]]] >>] :
        n \in 1..MaxSegments, d \in [1..MaxSegments -> SegmentDurations] }

\* the largest delay, early or late, in seconds
MaxDelay == 150

DelayInputs == { Num(d) : d \in (0 - MaxDelay)..MaxDelay } \cup { NullNum, UndefinedNum }

\* the most legs of a generated journey
MaxLegs == 4

\* journeys of 0..MaxLegs legs, each walking or not (a leg without the optional
\* field 'walking' is one that is not walking)
JourneyInputs ==
    { [legs |-> l] :
        l \in UNION { [1..n -> { [walking |-> TRUE], [walking |-> FALSE] }] : n \in 0..MaxLegs } }

\* Departure.platform and Departure.plannedPlatform: string | null
PlatformValues == { Null, <<"5">>, <<"7">> }

DepartureInputs ==
    { [platform |-> p, plannedPlatform |-> pp, when |-> w] :
        p \in PlatformValues, pp \in PlatformValues, w \in { Null, <<"t">> } }

\* what a caller may write for a numeric parameter: nothing, numbers below, at
\* and above each cap, a negative number, a fraction, padding, no number at all
CallerNumbers ==
    { Null, EmptyStr, <<"0">>, <<"1">>, <<"1", "0">>, <<"1", "1">>, <<"2", "0">>, <<"2", "1">>,
      <<"5", "0">>, <<"5", "1">>, <<"7", "2", "0">>, <<"7", "2", "1">>, <<"9", "9", "9", "9", "9">>,
      <<"-", "5">>, <<"7", ".", "9">>, <<" ", "3", "0">>, <<"a", "b", "c">> }

\* rail requests with caller-supplied limits
LimitRequests ==
    { [IdleReq EXCEPT !.ep = "search", !.params = [NoParams EXCEPT !.q = sBerlin, !.limit = l]] :
        l \in CallerNumbers }
    \cup { [IdleReq EXCEPT !.ep = "departures",
                           !.params = [NoParams EXCEPT !.station = st, !.duration = d, !.results = r]] :
             st \in { Id7, sBerlin }, d \in CallerNumbers, r \in CallerNumbers }
    \cup { [IdleReq EXCEPT !.ep = "journeys",
                           !.params = [NoParams EXCEPT !.from = f, !.to = Id8, !.results = r]] :
             f \in { Id7, sBerlin }, r \in CallerNumbers }

\* a payload with which the provider answers a call, a stop found for a search
SomePayload(url) ==
    IF url.path = "/locations" THEN <<StopA>> ELSE CHOOSE p \in DbPayloads(url) : TRUE

RECURSIVE CallUrls(_)
\* the URLs a handler requests, one after the other, when every call succeeds
CallUrls(rq) ==
    IF rq.pc # "call" THEN <<>>
    ELSE <<rq.call.url>> \o CallUrls(Resume(rq, Returned(SomePayload(rq.call.url)), 50))

\* queries of the local airport search: none, one that every entry matches, ones
\* that more than 10 entries match, a city, a code, one that nothing matches
AirportQueries ==
    { EmptyStr, <<"r">>, <<"e">>, <<"R">>, <<"r", "t">>, <<"m", "u">>, <<"M", "U", "C">>,
      <<"a", "i", "r", "p", "o", "r", "t">>, <<"l", "o", "n", "d", "o", "n">>, <<"x", "y">> }

\* the value of res before the function under test has returned
Pending(f) ==
    CASE f = "getAirportCode" -> <<"#pending">>
      [] f = "resolveLocation" -> [ok |-> FALSE, val |-> <<"#pending">>, err |-> NoMsg]
      [] f = "transformFlightOffer" -> [id |-> "#pending", stops |-> 0, durationMinutes |-> NaN]
      [] f = "formatDelay" -> <<"#pending">>
      [] f = "getTransferCount" -> -1
      [] f = "TransformDeparture" -> [platform |-> <<"#pending">>, plannedPlatform |-> Null, platformChanged |-> FALSE, cancelled |-> FALSE]
      [] f = "GET" -> <<NoUrl>>
      [] f = "searchLocalAirports" -> << [name |-> <<"#pending">>, iataCode |-> EmptyStr, city |-> EmptyStr] >>

PureInit ==
    /\ now = 0
    /\ cache = [u \in {} |-> Null]
    /\ accessToken = Null
    /\ tokenExpiry = 0
    /\ env = [AMADEUS_CLIENT_ID |-> Undefined, AMADEUS_CLIENT_SECRET |-> Undefined]
    /\ provider = "none"
    /\ req = <<>>
    /\ started = 0
    /\ ev = <<>>
    /\ \/ fn = "getAirportCode" /\ arg \in AirportInputs \cup AirportNameInputs
       \/ fn = "resolveLocation" /\ arg \in LocationInputs
       \/ fn = "transformFlightOffer" /\ arg \in OfferInputs
       \/ fn = "formatDelay" /\ arg \in DelayInputs
       \/ fn = "getTransferCount" /\ arg \in JourneyInputs
       \/ fn = "TransformDeparture" /\ arg \in DepartureInputs
       \/ fn = "GET" /\ arg \in LimitRequests
       \/ fn = "searchLocalAirports" /\ arg \in AirportQueries
    /\ res = Pending(fn)

ApplyGetAirportCode ==
    /\ fn = "getAirportCode"
    /\ res = <<"#pending">>
    /\ res' = getAirportCode(arg)
    /\ UNCHANGED <<now, cache, accessToken, tokenExpiry, env, provider, req, started, ev, fn, arg>>

ApplyResolveLocation ==
    /\ fn = "resolveLocation"
    /\ res = Pending(fn)
    /\ res' = resolveLocation(arg)
    /\ UNCHANGED <<now, cache, accessToken, tokenExpiry, env, provider, req, started, ev, fn, arg>>

ApplyTransformFlightOffer ==
    /\ fn = "transformFlightOffer"
    /\ res = Pending(fn)
    /\ res' = transformFlightOffer(arg)
    /\ UNCHANGED <<now, cache, accessToken, tokenExpiry, env, provider, req, started, ev, fn, arg>>

ApplyFormatDelay ==
    /\ fn = "formatDelay"
    /\ res = Pending(fn)
    /\ res' = formatDelay(arg)
    /\ UNCHANGED <<now, cache, accessToken, tokenExpiry, env, provider, req, started, ev, fn, arg>>

ApplyGetTransferCount ==
    /\ fn = "getTransferCount"
    /\ res = Pending(fn)
    /\ res' = getTransferCount(arg)
    /\ UNCHANGED <<now, cache, accessToken, tokenExpiry, env, provider, req, started, ev, fn, arg>>

ApplyTransformDeparture ==
    /\ fn = "TransformDeparture"
    /\ res = Pending(fn)
    /\ res' = TransformDeparture(arg)
    /\ UNCHANGED <<now, cache, accessToken, tokenExpiry, env, provider, req, started, ev, fn, arg>>

ApplyHandler ==
    /\ fn = "GET"
    /\ res = Pending(fn)
    /\ res' = CallUrls(Enter(arg, EnvNone, 50))
    /\ UNCHANGED <<now, cache, accessToken, tokenExpiry, env, provider, req, started, ev, fn, arg>>

ApplySearchLocalAirports ==
    /\ fn = "searchLocalAirports"
    /\ res = Pending(fn)
    /\ res' = searchLocalAirports(arg)
    /\ UNCHANGED <<now, cache, accessToken, tokenExpiry, env, provider, req, started, ev, fn, arg>>

PureNext ==
    \/ ApplyGetAirportCode
    \/ ApplyResolveLocation
    \/ ApplyTransformFlightOffer
    \/ ApplyFormatDelay
    \/ ApplyGetTransferCount
    \/ ApplyTransformDeparture
    \/ ApplyHandler
    \/ ApplySearchLocalAirports

SpecPure == PureInit /\ [][PureNext]_vars

-----------------------------------------------------------------------------
(* C10: the reference resolver of the specification, section 4.4 *)

TableKeys == { GERMAN_AIRPORTS[i][1] : i \in 1..Len(GERMAN_AIRPORTS) }

CodeOf(key) == GERMAN_AIRPORTS[CHOOSE i \in 1..Len(GERMAN_AIRPORTS) : GERMAN_AIRPORTS[i][1] = key][2]

SubstringMatches(input) ==
    { k \in TableKeys :
        \/ includes(toLowerCase(k), toLowerCase(input))
        \/ includes(toLowerCase(input), toLowerCase(k)) }

IsAsciiLetter(c) == \E i \in 1..26 : UpperLetters[i] = c \/ LowerLetters[i] = c

IsThreeLetterToken(input) == Len(input) = 3 /\ \A i \in 1..3 : IsAsciiLetter(input[i])

RefResolverAccepts(input, out) ==
    IF input \in TableKeys THEN out = CodeOf(input)
    ELSE IF SubstringMatches(input) # {} THEN out \in { CodeOf(k) : k \in SubstringMatches(input) }
    ELSE IF IsThreeLetterToken(input) THEN out = toUpperCase(input)
    ELSE out = Undefined

\* C10: getAirportCode(input) equals the reference resolver for every input: the
\* table code on an exact match, else the code of a substring-matching entry, else
\* the uppercased input when it is a 3-letter alphabetic token, else absent.
C10_EqualsReference ==
    (fn = "getAirportCode" /\ res # <<"#pending">>) => RefResolverAccepts(arg, res)

\* C10 on the inputs the specification names: 'muc' and the exact key give MUC,
\* 'XYZ' gives XYZ, 'Nonexistentcity' gives absent.
C10_NamedExamples ==
    /\ getAirportCode(<<"m", "u", "c">>) = <<"M", "U", "C">>
    /\ getAirportCode(<<"M", uUml, "n", "c", "h", "e", "n">>) = <<"M", "U", "C">>
    /\ getAirportCode(<<"X", "Y", "Z">>) = <<"X", "Y", "Z">>
    /\ getAirportCode(<<"N", "o", "n", "e", "x", "i", "s", "t", "e", "n", "t", "c", "i", "t", "y">>) = Undefined

-----------------------------------------------------------------------------
(* C11 *)

\* the input is the name, up to letter case and surrounding whitespace
SameUpToCaseAndSpace(input, name) == trim(toLowerCase(input)) = toLowerCase(name)

\* C11: for every supported German city name, as written and in its ASCII
\* variant, getAirportCode returns the city's code and resolveLocation the city's
\* coordinate whatever the letter case or surrounding whitespace of the input.
C11_CaseAndWhitespace ==
    /\ (fn = "getAirportCode" /\ res # Pending(fn)) =>
        \A i \in 1..Len(GERMAN_AIRPORTS) :
            (\/ SameUpToCaseAndSpace(arg, GERMAN_AIRPORTS[i][1])
             \/ SameUpToCaseAndSpace(arg, Transliterate(GERMAN_AIRPORTS[i][1]))) =>
                res = GERMAN_AIRPORTS[i][2]
    /\ (fn = "resolveLocation" /\ res # Pending(fn)) =>
        \A i \in 1..Len(CITY_COORDS) :
            SameUpToCaseAndSpace(arg, CITY_COORDS[i][1]) =>
                res.ok /\ res.val = CITY_COORDS[i][2]

\* C11 without the ASCII variants of the airport table's names: the names as the
\* two tables write them resolve whatever the case or surrounding whitespace
C11_AsWritten ==
    /\ (fn = "getAirportCode" /\ res # Pending(fn)) =>
        \A i \in 1..Len(GERMAN_AIRPORTS) :
            SameUpToCaseAndSpace(arg, GERMAN_AIRPORTS[i][1]) => res = GERMAN_AIRPORTS[i][2]
    /\ (fn = "resolveLocation" /\ res # Pending(fn)) =>
        \A i \in 1..Len(CITY_COORDS) :
            SameUpToCaseAndSpace(arg, CITY_COORDS[i][1]) =>
                res.ok /\ res.val = CITY_COORDS[i][2]

-----------------------------------------------------------------------------
(* C12 *)

RECURSIVE SumDurationMinutes(_)
\* the sum over the segments of getDurationMinutes(segment.duration)
SumDurationMinutes(segments) ==
    IF segments = <<>> THEN Num(0)
    ELSE NumAdd(getDurationMinutes(Head(segments).duration), SumDurationMinutes(Tail(segments)))

\* C12: the durationMinutes of a transformed flight offer equals the sum over the
\* outbound itinerary's segments of getDurationMinutes of the segment's duration,
\* for segment durations of the forms PTxH, PTyM and PTxHyM.
C12_DurationMinutes ==
    (fn = "transformFlightOffer" /\ res # Pending(fn)) =>
        res.durationMinutes = SumDurationMinutes(arg.itineraries[1].segments)

\* a duration with an hour part: PTxH or PTxHyM
HasHourPart(duration) == \E i \in 1..Len(duration) : duration[i] = "H"

\* C12 for the itineraries all of whose segments have an hour part
C12_WithHourPart ==
    (/\ fn = "transformFlightOffer" /\ res # Pending(fn)
     /\ \A i \in 1..Len(arg.itineraries[1].segments) :
            HasHourPart(arg.itineraries[1].segments[i].duration)) =>
        res.durationMinutes = SumDurationMinutes(arg.itineraries[1].segments)

\* getDurationMinutes is hours * 60 + minutes on the three forms
C12_GetDurationMinutes ==
    /\ \A x \in HourValues : getDurationMinutes(DurationPTxH(x)) = Num(60 * x)
    /\ \A y \in MinuteValues : getDurationMinutes(DurationPTyM(y)) = Num(y)
    /\ \A x \in HourValues, y \in MinuteValues :
            getDurationMinutes(DurationPTxHyM(x, y)) = Num(60 * x + y)

-----------------------------------------------------------------------------
(* C13 *)

MinSuffix == <<" ", "m", "i", "n">>

\* C13: formatDelay(d) is the empty string when d is zero or absent, and for every
\* other delay a signed minute string: '+N min' when late, '-N min' when early.
C13_FormatDelay ==
    (fn = "formatDelay" /\ res # Pending(fn)) =>
        IF arg.k # "num" \/ arg.v = 0 THEN res = EmptyStr
        ELSE \E N \in 0..MaxDelay :
                res = (IF arg.v > 0 THEN <<"+">> ELSE <<"-">>) \o NumberToString(N) \o MinSuffix

\* C13 for the delays that do not round to zero minutes, and the examples
\* formatDelay(120) = '+2 min', formatDelay(-60) = '-1 min'
C13_WholeMinutes ==
    /\ (fn = "formatDelay" /\ res # Pending(fn)) =>
        IF arg.k # "num" \/ arg.v = 0 THEN res = EmptyStr
        ELSE (arg.v >= 30 \/ arg.v < -30) =>
                \E N \in 1..MaxDelay :
                    res = (IF arg.v > 0 THEN <<"+">> ELSE <<"-">>) \o NumberToString(N) \o MinSuffix
    /\ formatDelay(Num(120)) = <<"+", "2">> \o MinSuffix
    /\ formatDelay(Num(-60)) = <<"-", "1">> \o MinSuffix

-----------------------------------------------------------------------------
(* C14 *)

RECURSIVE NonWalking(_)
\* the number of legs that are not walking legs
NonWalking(legs) ==
    IF legs = <<>> THEN 0
    ELSE (IF Head(legs).walking THEN 0 ELSE 1) + NonWalking(Tail(legs))

\* C14: getTransferCount(journey) is the number of non-walking legs minus one,
\* floored at 0, for every sequence of legs, the empty and the all-walking included.
C14_TransferCount ==
    (fn = "getTransferCount" /\ res # Pending(fn)) =>
        /\ NonWalking(arg.legs) >= 1 => res = NonWalking(arg.legs) - 1
        /\ NonWalking(arg.legs) = 0 => res = 0

\* the legs [walk, train, walk, train] give 1
C14_Witness ==
    /\ fn = "getTransferCount"
    /\ arg.legs = << [walking |-> TRUE], [walking |-> FALSE], [walking |-> TRUE], [walking |-> FALSE] >>
    /\ res = 1

\* an all-walking journey gives 0
C14_WitnessAllWalking ==
    /\ fn = "getTransferCount"
    /\ arg.legs = << [walking |-> TRUE], [walking |-> TRUE] >>
    /\ res = 0

-----------------------------------------------------------------------------
(* C15 *)

\* C15: a departure's platformChanged is true exactly when the actual platform
\* differs from the planned platform and a planned platform exists; it is false
\* when the two are equal or there is no planned platform.
C15_PlatformChanged ==
    (fn = "TransformDeparture" /\ res # Pending(fn)) =>
        /\ (arg.plannedPlatform # Null /\ arg.platform # arg.plannedPlatform) => res.platformChanged
        /\ arg.plannedPlatform = Null => ~res.platformChanged
        /\ arg.platform = arg.plannedPlatform => ~res.platformChanged
        /\ res.platform = arg.platform
        /\ res.plannedPlatform = arg.plannedPlatform

\* an actual platform and no planned platform: the flag is false
C15_Witness ==
    /\ fn = "TransformDeparture"
    /\ arg.platform = <<"7">>
    /\ arg.plannedPlatform = Null
    /\ res.platform = <<"7">>
    /\ ~res.platformChanged

\* platform 7 instead of the planned 5: the flag is true
C15_WitnessChanged ==
    /\ fn = "TransformDeparture"
    /\ arg.platform = <<"7">>
    /\ arg.plannedPlatform = <<"5">>
    /\ res.platformChanged

-----------------------------------------------------------------------------
(* C16 *)

\* a numeric URL parameter is left out, is not a number, or is at most cap
AtMost(x, cap) == x.k = "num" => x.v <= cap

\* C16: whatever the caller gives, the duration sent to the departures provider
\* never exceeds 720 and its results never exceeds 50, the journeys results never
\* exceeds 10, and the station-search limit of the search handler never exceeds 20.
C16_Clamped ==
    (fn = "GET" /\ res # Pending(fn)) =>
        /\ Len(res) >= 1
        /\ \A i \in 1..Len(res) :
            /\ res[i].path = "/stops/:id/departures" => AtMost(res[i].n, 720) /\ AtMost(res[i].m, 50)
            /\ res[i].path = "/journeys" => AtMost(res[i].n, 10)
            /\ (res[i].path = "/locations" /\ arg.ep = "search") => AtMost(res[i].n, 20)

\* duration=99999&results=99999 on the departures of a station id: 720 and 50 are sent
C16_Witness ==
    /\ fn = "GET"
    /\ arg.ep = "departures"
    /\ arg.params.duration = <<"9", "9", "9", "9", "9">>
    /\ arg.params.results = <<"9", "9", "9", "9", "9">>
    /\ Len(res) = 1
    /\ res[1].path = "/stops/:id/departures"
    /\ res[1].n = Num(720)
    /\ res[1].m = Num(50)

\* a caller value below the cap is forwarded as it is
C16_WitnessBelow ==
    /\ fn = "GET"
    /\ arg.ep = "journeys"
    /\ arg.params.results = <<"1">>
    /\ Len(res) = 2
    /\ res[2].path = "/journeys"
    /\ res[2].n = Num(1)

-----------------------------------------------------------------------------
(* Reading the last step *)

\* the events of the last step of a given type
EvIdx(type) == { i \in 1..Len(ev) : ev[i].type = type }

\* the TTL fetchWithCache is called with for a rail URL
TtlOf(url) ==
    CASE url.path = "/locations" -> 60000
      [] url.path = "/stops/:id/departures" -> 30000
      [] url.path = "/journeys" -> 60000

IsDbUrl(url) == url.base = "db"

PathsOf(calls) == [i \in 1..Len(calls) |-> calls[i].url.path]

-----------------------------------------------------------------------------
(* C1 *)

\* C1: a call of fetchWithCache for URL K made while now < storedExpiry returns the
\* stored payload and sends no outbound request; a call made at or after
\* storedExpiry (or with no entry) sends an outbound request, and its successful
\* result is stored again with expiry now + TTL.
C1_CacheRoundTrip ==
    /\ \A i \in EvIdx("hit") :
        /\ ev[i].url \in DOMAIN cache
        /\ now < cache[ev[i].url].expires
        /\ ev[i].data = cache[ev[i].url].data
        /\ \A j \in EvIdx("fetch") : ev[j].url # ev[i].url
    /\ \A i \in EvIdx("fetch") :
        IsDbUrl(ev[i].url) =>
            /\ ev[i].url \notin DOMAIN cache \/ now >= cache[ev[i].url].expires
            /\ req[ev[i].slot].pc = "await"
            /\ req[ev[i].slot].out[Len(req[ev[i].slot].out)] = ev[i].url
    /\ \A i \in EvIdx("store") :
        cache[ev[i].url] = [data |-> ev[i].data, expires |-> now + TtlOf(ev[i].url)]

\* a later call is served from an entry stored at an earlier time
C1_Witness ==
    \E i \in EvIdx("hit") :
        /\ now > cache[ev[i].url].expires - TtlOf(ev[i].url)
        /\ now < cache[ev[i].url].expires

\* a call at exactly storedExpiry goes out again
C1_WitnessExpired ==
    \E i \in EvIdx("fetch") :
        IsDbUrl(ev[i].url) /\ ev[i].url \in DOMAIN cache /\ now = cache[ev[i].url].expires

-----------------------------------------------------------------------------
(* C2 *)

\* C2: getAccessToken hands out the cached token without a token request only
\* when a token is cached and now < tokenExpiry - 60s, so a reused token has more
\* than 60s left; in every other case it requests a token, and the response
\* replaces the token, with expiry now + expires_in.
C2_TokenReuse ==
    /\ \A i \in EvIdx("tokenReuse") :
        /\ ~CredentialsMissing(env)
        /\ Truthy(accessToken)
        /\ ev[i].data = accessToken
        /\ tokenExpiry - now > 60000
    /\ \A i \in EvIdx("fetch") :
        ev[i].url = TokenUrl =>
            /\ ~CredentialsMissing(env)
            /\ Falsy(accessToken) \/ tokenExpiry - now <= 60000
    /\ \A i \in EvIdx("tokenStore") :
        /\ accessToken = ev[i].data.access_token
        /\ tokenExpiry = now + ev[i].data.expires_in * 1000

\* a token acquired at an earlier time is reused
C2_Witness ==
    \E i \in EvIdx("tokenReuse") : now > 0 /\ tokenExpiry - now = 90000

\* a cached token is requested again exactly 60s before its expiry
C2_WitnessRefresh ==
    \E i \in EvIdx("fetch") :
        ev[i].url = TokenUrl /\ Truthy(accessToken) /\ tokenExpiry - now = 60000

-----------------------------------------------------------------------------
(* C3 *)

\* C3: in GET /api/transport/departures a 7-8 digit station is not searched and
\* its departures are requested; any other station is searched first and the top
\* result's ID is requested; when the search finds no stop the response is 404
\* 'Station not found' and no departures request is made.
C3_DeparturesResolution ==
    \A i \in EvIdx("respond") :
        LET rq == ev[i].data
            st == rq.params.station
        IN  (rq.ep = "departures" /\ Truthy(st)) =>
            /\ (Len(st) \in {7, 8} /\ AllDigits(st)) =>
                /\ PathsOf(rq.calls) = <<"/stops/:id/departures">>
                /\ rq.calls[1].url.a = st
            /\ ~(Len(st) \in {7, 8} /\ AllDigits(st)) =>
                /\ rq.calls[1].url.path = "/locations"
                /\ rq.calls[1].url.a = st
                /\ (rq.rets[1].ok /\ Len(rq.rets[1].data) = 0) =>
                    /\ rq.resp.status = 404
                    /\ rq.resp.error = Msg(<<"Station", "not", "found:", "${token}">>, st)
                    /\ PathsOf(rq.calls) = <<"/locations">>
                    /\ Len(rq.out) <= 1
                /\ (rq.rets[1].ok /\ Len(rq.rets[1].data) > 0) =>
                    /\ PathsOf(rq.calls) = <<"/locations", "/stops/:id/departures">>
                    /\ rq.calls[2].url.a = rq.rets[1].data[1].id
                    /\ rq.resp.status = 200 => rq.resp.body.station.id = rq.rets[1].data[1].id

\* a station name is searched, not found, and answered 404
C3_Witness ==
    \E i \in EvIdx("respond") :
        /\ ev[i].data.ep = "departures"
        /\ ev[i].data.params.station = sBerlin
        /\ ev[i].data.resp.status = 404

\* a station name is resolved and its departures are answered
C3_WitnessResolved ==
    \E i \in EvIdx("respond") :
        /\ ev[i].data.ep = "departures"
        /\ ev[i].data.params.station = sBerlin
        /\ ev[i].data.resp.status = 200

-----------------------------------------------------------------------------
(* C4 *)

IsId(st) == Len(st) \in {7, 8} /\ AllDigits(st)

-----------------------------------------------------------------------------
(* C5 *)

\* C5: GET /api/flights/search with from, to and date given, both airports
\* resolvable and no credentials configured answers 200 with mock: true and
\* exactly 3 offers whose stops are 0, 1, 0, and makes no outbound call.
C5_MockWithoutCredentials ==
    \A i \in EvIdx("respond") :
        LET rq == ev[i].data
        IN  (/\ rq.ep = "flights"
             /\ Truthy(rq.params.from) /\ Truthy(rq.params.to) /\ Truthy(rq.params.date)
             /\ Truthy(getAirportCode(rq.params.from)) /\ Truthy(getAirportCode(rq.params.to))
             /\ (Falsy(env.AMADEUS_CLIENT_ID) \/ Falsy(env.AMADEUS_CLIENT_SECRET))) =>
            /\ rq.resp.status = 200
            /\ rq.resp.mock
            /\ Len(rq.resp.body) = 3
            /\ [k \in 1..3 |-> rq.resp.body[k].stops] = <<0, 1, 0>>
            /\ rq.out = <<>>

\* the request FRA... of the specification: Berlin to muc without credentials
C5_Witness ==
    \E i \in EvIdx("respond") :
        /\ ev[i].data.ep = "flights"
        /\ ev[i].data.params.from = sBerlin
        /\ ev[i].data.params.to = sMuc
        /\ ev[i].data.params.date = sDate
        /\ env = EnvOnlyId
        /\ ev[i].data.resp.mock

-----------------------------------------------------------------------------
(* C6 *)

\* C6: GET /api/flights/search with credentials configured: a failure of the token
\* acquisition or of the offer search whose message mentions 'credentials' is
\* answered 200 with the mock offers; every other failure of them is answered 500.
C6_CredentialFailureDegrades ==
    \A i \in EvIdx("respond") :
        LET rq == ev[i].data
            failed == Len(rq.rets) > 0 /\ ~rq.rets[Len(rq.rets)].ok
            words == rq.rets[Len(rq.rets)].err.words
        IN  (rq.ep = "flights" /\ Truthy(env.AMADEUS_CLIENT_ID) /\ Truthy(env.AMADEUS_CLIENT_SECRET)
             /\ failed) =>
            IF \E k \in 1..Len(words) : words[k] = "credentials"
            THEN /\ rq.resp.status = 200
                 /\ rq.resp.mock
                 /\ Len(rq.resp.body) = 3
            ELSE /\ rq.resp.status = 500
                 /\ ~rq.resp.mock

\* the offer search fails with a credentials message and the mock offers are served
C6_Witness ==
    \E i \in EvIdx("respond") :
        /\ ev[i].data.ep = "flights"
        /\ env = EnvBoth
        /\ Len(ev[i].data.out) > 0
        /\ ev[i].data.out[Len(ev[i].data.out)].path = "/v2/shopping/flight-offers"
        /\ ev[i].data.resp.mock

\* the token acquisition fails and the response is 500
C6_WitnessTokenFailure ==
    \E i \in EvIdx("respond") :
        /\ ev[i].data.ep = "flights"
        /\ ev[i].data.out = <<TokenUrl>>
        /\ ev[i].data.resp.status = 500

-----------------------------------------------------------------------------
(* C7 *)

\* C7: GET /api/flights/search with from, to and date given: when 'from' does not
\* resolve the response is 400 naming the origin input; when 'from' resolves and
\* 'to' does not, 400 naming the destination input; in both cases neither the mock
\* path nor an outbound call is reached.
C7_UnresolvedAirport ==
    \A i \in EvIdx("respond") :
        LET rq == ev[i].data
            from == rq.params.from
            to == rq.params.to
        IN  (rq.ep = "flights" /\ Truthy(from) /\ Truthy(to) /\ Truthy(rq.params.date)) =>
            /\ Falsy(getAirportCode(from)) =>
                /\ rq.resp.status = 400
                /\ rq.resp.error.words[2] = "origin"
                /\ rq.resp.error.arg = from
                /\ ~rq.resp.mock /\ rq.calls = <<>> /\ rq.out = <<>>
            /\ (Truthy(getAirportCode(from)) /\ Falsy(getAirportCode(to))) =>
                /\ rq.resp.status = 400
                /\ rq.resp.error.words[2] = "destination"
                /\ rq.resp.error.arg = to
                /\ ~rq.resp.mock /\ rq.calls = <<>> /\ rq.out = <<>>

\* 'from' resolves, 'to' does not: 400 names the destination
C7_Witness ==
    \E i \in EvIdx("respond") :
        /\ ev[i].data.ep = "flights"
        /\ ev[i].data.params.from = sBerlin
        /\ ev[i].data.params.to = sAtlantis
        /\ ev[i].data.resp.status = 400

-----------------------------------------------------------------------------
(* C8 *)

CityKeys == { CITY_COORDS[i][1] : i \in 1..Len(CITY_COORDS) }

\* neither a coordinate pair nor a known city name
UnknownPlace(x) == ~IsCoordPair(x) /\ trim(toLowerCase(x)) \notin CityKeys

\* C8: GET /api/connections with a 'from' or 'to' that is neither a coordinate
\* pair nor a known city name answers 400 with a message naming that input, and
\* sends no request to the journey planner.
C8_UnknownCityIs400 ==
    \A i \in EvIdx("respond") :
        LET rq == ev[i].data
            from == rq.params.from
            to == rq.params.to
        IN  (rq.ep = "connections" /\ Truthy(from) /\ Truthy(to)
             /\ (UnknownPlace(from) \/ UnknownPlace(to))) =>
            /\ rq.resp.status = 400
            /\ rq.resp.error.arg = (IF UnknownPlace(from) THEN from ELSE to)
            /\ rq.out = <<>>

\* what the handler does with such an input: 500, the message naming the input,
\* no request to the journey planner
C8_UnknownCityIs500 ==
    \A i \in EvIdx("respond") :
        LET rq == ev[i].data
            from == rq.params.from
            to == rq.params.to
        IN  (rq.ep = "connections" /\ Truthy(from) /\ Truthy(to)
             /\ (UnknownPlace(from) \/ UnknownPlace(to))) =>
            /\ rq.resp.status = 500
            /\ rq.resp.error.arg = (IF UnknownPlace(from) THEN from ELSE to)
            /\ rq.out = <<>>

-----------------------------------------------------------------------------
(* C9 *)

\* the required query parameters of a request are not all there
MissingRequired(rq) ==
    LET p == rq.params
        none(x) == x = Null \/ x = EmptyStr
    IN  CASE rq.ep = "search" -> none(p.q) \/ Len(p.q) < 2
          [] rq.ep = "airports" -> none(p.q) \/ Len(p.q) < 2
          [] rq.ep = "departures" -> none(p.station)
          [] rq.ep = "journeys" -> none(p.from) \/ none(p.to)
          [] rq.ep = "connections" -> none(p.from) \/ none(p.to)
          [] rq.ep = "flights" -> none(p.from) \/ none(p.to) \/ none(p.date)

\* C9: in every handler a missing required query parameter (or a q shorter than 2
\* characters) is answered 400 before any network call: the request sends nothing
\* outbound, reads no cache entry and acquires no token.
C9_MissingParameterIs400 ==
    \A i \in EvIdx("respond") :
        LET rq == ev[i].data
        IN  MissingRequired(rq) =>
            /\ rq.resp.status = 400
            /\ rq.out = <<>>
            /\ rq.calls = <<>>
            /\ \A j \in 1..Len(ev) : ev[j].type = "respond"

\* GET /api/transport/search?q=a is answered 400
C9_Witness ==
    \E i \in EvIdx("respond") :
        /\ ev[i].data.ep = "search"
        /\ ev[i].data.params.q = <<"a">>
        /\ ev[i].data.resp.status = 400
        /\ ev[i].data.resp.error = MsgQRequired

-----------------------------------------------------------------------------
(* C17 *)

\* C17: GET /api/flights/airports with a q of at least 2 characters is answered 200:
\* without credentials with the local table search and no outbound call; with
\* credentials the reference-data lookup is called, its result is returned when it
\* succeeds, and the local table search when it or the token acquisition fails.
\* The local search result has at most 10 entries.
C17_AirportsAlways200 ==
    \A i \in EvIdx("respond") :
        LET rq == ev[i].data
            q == rq.params.q
        IN  (rq.ep = "airports" /\ Truthy(q) /\ Len(q) >= 2) =>
            /\ rq.resp.status = 200
            /\ rq.resp.body.query = q
            /\ rq.resp.body.local =>
                /\ Len(rq.resp.body.results) <= 10
                /\ LET found == searchLocalAirports(q)
                   IN  rq.resp.body.results = [k \in 1..Len(found) |-> found[k].iataCode]
            /\ (Falsy(env.AMADEUS_CLIENT_ID) \/ Falsy(env.AMADEUS_CLIENT_SECRET)) =>
                /\ rq.resp.body.local
                /\ rq.calls = <<>> /\ rq.out = <<>>
            /\ (Truthy(env.AMADEUS_CLIENT_ID) /\ Truthy(env.AMADEUS_CLIENT_SECRET)) =>
                /\ PathsOf(rq.calls) = <<"/v1/reference-data/locations">>
                /\ Len(rq.rets) = 1
                /\ rq.resp.body.local = ~rq.rets[1].ok
                /\ rq.rets[1].ok =>
                     rq.resp.body.results =
                       [k \in 1..Len(rq.rets[1].data.data) |-> rq.rets[1].data.data[k].iataCode]

\* with credentials, the token acquisition fails and the local result for "rt",
\* which has 10 entries, is served
C17_Witness ==
    \E i \in EvIdx("respond") :
        /\ ev[i].data.ep = "airports"
        /\ ev[i].data.params.q = <<"r", "t">>
        /\ env = EnvBoth
        /\ ev[i].data.out = <<TokenUrl>>
        /\ ev[i].data.resp.status = 200
        /\ ev[i].data.resp.body.local
        /\ Len(ev[i].data.resp.body.results) = 10

\* with credentials, the lookup succeeds and its airports are served
C17_WitnessLive ==
    \E i \in EvIdx("respond") :
        /\ ev[i].data.ep = "airports"
        /\ env = EnvBoth
        /\ ev[i].data.resp.status = 200
        /\ ~ev[i].data.resp.body.local
        /\ Len(ev[i].data.resp.body.results) = 1

\* the local search proper: never more than 10 entries, each one matching the
\* query, for queries that more than 10 entries match too
C17_LocalCap ==
    (fn = "searchLocalAirports" /\ res # Pending(fn)) =>
        /\ Len(res) <= 10
        /\ res = Slice(searchLocalAirports_Uncut(arg), 10)
        /\ \A k \in 1..Len(res) :
            \/ includes(toLowerCase(res[k].name), toLowerCase(arg))
            \/ includes(toLowerCase(res[k].iataCode), toLowerCase(arg))

\* the query "r", which 17 entries match, gives 10
C17_WitnessCut ==
    /\ fn = "searchLocalAirports"
    /\ arg = <<"r">>
    /\ Len(searchLocalAirports_Uncut(arg)) = 17
    /\ Len(res) = 10

-----------------------------------------------------------------------------
(* C18 *)

NoDuplicates(seq) == \A i, j \in 1..Len(seq) : seq[i] = seq[j] => i = j

\* one of the request's client calls failed
SomeCallFailed(rq) == \E k \in 1..Len(rq.rets) : ~rq.rets[k].ok

\* C18: no retries anywhere: within one inbound request each outbound call is
\* attempted at most once, and a single failed outbound call fails the whole
\* request, which is answered with an error status.
C18_FailureFailsRequest ==
    \A i \in EvIdx("respond") :
        LET rq == ev[i].data
        IN  /\ NoDuplicates(rq.out)
            /\ SomeCallFailed(rq) => rq.resp.status >= 400

\* C18, with the two fallbacks apart: within one inbound request no URL is
\* requested twice, a failed call is the request's last call (nothing is sent
\* after it), and the request is answered 500, except that the airports handler
\* answers 200 with the local search and the flight search answers 200 with the
\* mock offers when the failure's message mentions credentials.
C18_NoRetry ==
    \A i \in EvIdx("respond") :
        LET rq == ev[i].data
            last == rq.rets[Len(rq.rets)]
        IN  /\ NoDuplicates(rq.out)
            /\ Len(rq.calls) = Len(rq.rets)
            /\ \A k \in 1..(Len(rq.rets) - 1) : rq.rets[k].ok
            /\ SomeCallFailed(rq) =>
                /\ Len(rq.out) >= 1
                /\ IF rq.ep = "airports"
                   THEN rq.resp.status = 200 /\ rq.resp.body.local
                   ELSE IF rq.ep = "flights" /\ (\E k \in 1..Len(last.err.words) :
                                                    last.err.words[k] = "credentials")
                   THEN rq.resp.status = 200 /\ rq.resp.mock
                   ELSE rq.resp.status = 500

\* the second call of a journeys request fails: two URLs were requested, the
\* findJourneys call was never made, the answer is 500
C18_Witness ==
    \E i \in EvIdx("respond") :
        /\ ev[i].data.ep = "journeys"
        /\ Len(ev[i].data.out) = 2
        /\ Len(ev[i].data.rets) = 2
        /\ ~ev[i].data.rets[2].ok
        /\ PathsOf(ev[i].data.calls) = <<"/locations", "/locations">>
        /\ ev[i].data.resp.status = 500

\* the airport lookup itself fails and the request is answered 200
C18_WitnessFallback ==
    \E i \in EvIdx("respond") :
        /\ ev[i].data.ep = "airports"
        /\ Len(ev[i].data.out) >= 1
        /\ ev[i].data.out[Len(ev[i].data.out)].path = "/v1/reference-data/locations"
        /\ ~ev[i].data.rets[1].ok
        /\ ev[i].data.resp.status = 200

-----------------------------------------------------------------------------
(* C19 *)

\* the URLs of the given provider whose payload arrived in the last step: a
\* "store" event of fetchWithCache, an "ok" event of amadeusRequest
JustFetched(type, base) == { ev[i].url : i \in { j \in EvIdx(type) : ev[j].url.base = base } }

\* the URLs the request of slot s sends to a provider in this step
NewOutbound(s) ==
    IF Len(req'[s].out) > Len(req[s].out)
    THEN { req'[s].out[k] : k \in (Len(req[s].out) + 1)..Len(req'[s].out) }
    ELSE {}

\* C19: the cache is consulted before each outbound call to flight endpoints as
\* it is for rail endpoints: a flight offer search or airport lookup whose result
\* was just fetched is, when repeated at once, served without a new outbound call.
C19_FlightCallsCached ==
    [][now' = now =>
        \A s \in Slots : NewOutbound(s) \cap JustFetched("ok", "amadeus") = {}]_vars

\* the rail half of C19: a rail URL whose result was just fetched is not requested
\* again by a request that runs at once
C19_RailCallsCached ==
    [][now' = now =>
        \A s \in Slots : NewOutbound(s) \cap JustFetched("store", "db") = {}]_vars

-----------------------------------------------------------------------------
(* C20 *)

\* the age, in milliseconds, a payload of the operation may reach: 60 s for
\* searchLocations, 30 s for getDepartures, 60 s for findJourneys
MaxAge(url) ==
    CASE url.path = "/locations" -> 60 * 1000
      [] url.path = "/stops/:id/departures" -> 30 * 1000
      [] url.path = "/journeys" -> 60 * 1000

\* C20: a payload returned by searchLocations is never older than 60 s since it
\* was stored, one returned by getDepartures never older than 30 s, one returned
\* by findJourneys never older than 60 s: no entry is ever kept beyond its
\* operation's bound from the moment it is stored, and an entry is only served
\* before its expiry.
C20_StalenessBound ==
    /\ \A u \in DOMAIN cache : cache[u].expires - now <= MaxAge(u)
    /\ \A i \in EvIdx("store") : cache[ev[i].url].expires = now + MaxAge(ev[i].url)
    /\ \A i \in EvIdx("hit") :
        /\ now < cache[ev[i].url].expires
        /\ ev[i].data = cache[ev[i].url].data

\* a station search stored at 0 is served from the cache at 30 s
C20_Witness ==
    \E i \in EvIdx("hit") :
        /\ ev[i].url.path = "/locations"
        /\ now = 30000
        /\ cache[ev[i].url].expires = 60000

\* departures stored at 0 are fetched again at 30 s
C20_WitnessDepartures ==
    \E i \in EvIdx("fetch") :
        /\ ev[i].url.path = "/stops/:id/departures"
        /\ ev[i].url \in DOMAIN cache
        /\ now = 30000
        /\ cache[ev[i].url].expires = 30000

-----------------------------------------------------------------------------
(* C21 *)

\* two requests are suspended in fetchWithCache's fetch of the same URL: both
\* found no fresh entry and both sent the call
DoubleCacheMiss ==
    \E s1, s2 \in Slots :
        /\ s1 # s2
        /\ Awaiting(s1, "db")
        /\ Awaiting(s2, "db")
        /\ req[s1].call.url = req[s2].call.url

\* two requests are suspended in getAccessToken's fetch: both found no valid
\* token and both asked for a new one
DoubleTokenRefresh ==
    \E s1, s2 \in Slots :
        /\ s1 # s2
        /\ Awaiting(s1, "token")
        /\ Awaiting(s2, "token")

\* C21: requests suspending only at outbound calls and at the token acquisition,
\* fetchWithCache's read-check-write and getAccessToken's check-refresh are
\* atomic with respect to other requests: no other request's operation on the
\* same key, or token check, falls between one request's expiry check and its
\* write, so two in-flight requests never both miss and both issue the same
\* outbound call.
C21_NoDoubleMiss == ~DoubleCacheMiss /\ ~DoubleTokenRefresh

\* the cache half of C21 alone
C21_NoDoubleCacheMiss == ~DoubleCacheMiss

\* the token half of C21 alone
C21_NoDoubleTokenRefresh == ~DoubleTokenRefresh

-----------------------------------------------------------------------------
(* C22 *)

\* the URLs fetchWithCache writes in the step just taken
StoredInStep == { ev'[i].url : i \in { j \in 1..Len(ev') : ev'[j].type = "store" } }

\* C22: cache entries are never removed: over any step the set of keys only
\* grows, an entry (expired or not) keeps its payload and expiry unless a
\* successful write to the same key replaces it in that step, and so a read of an
\* expired entry, which sends a fetch and writes nothing, leaves it as it was.
C22_NeverRemoved ==
    [][/\ DOMAIN cache \subseteq DOMAIN cache'
       /\ \A u \in DOMAIN cache : u \notin StoredInStep => cache'[u] = cache[u]
       /\ DOMAIN cache' \ DOMAIN cache \subseteq StoredInStep]_vars

\* an entry whose expiry has passed was just read, is fetched again, and is still
\* in the map with its old expiry
C22_Witness ==
    \E i \in EvIdx("fetch") :
        /\ ev[i].url \in DOMAIN cache
        /\ now > cache[ev[i].url].expires

\* a write happens while another key's entry is expired, and that entry stays
C22_WitnessOtherKey ==
    \E i \in EvIdx("store") : \E u \in DOMAIN cache :
        /\ u # ev[i].url
        /\ now >= cache[u].expires

-----------------------------------------------------------------------------
(* C23 *)

\* the failed fetchWithCache calls among the events e of a step
FailedDbCalls(e) == { i \in 1..Len(e) : e[i].type = "fail" /\ IsDbUrl(e[i].url) }

\* the request of slot s as the step just taken left it: the one that responded
\* in it, or the one still in its slot
AfterStep(s) ==
    IF \E j \in 1..Len(ev') : ev'[j].type = "respond" /\ ev'[j].slot = s
    THEN ev'[CHOOSE j \in 1..Len(ev') : ev'[j].type = "respond" /\ ev'[j].slot = s].data
    ELSE req'[s]

C23_WitnessNoEntry ==
    \E i \in FailedDbCalls(ev) : ev[i].url \notin DOMAIN cache

\* refuted by the model, which shows that the second case of C23 occurs: a URL
\* whose call has just failed is never asked for in the step that follows
C23_NeverAskedAgain ==
    [][\A i \in FailedDbCalls(ev) :
        \A j \in 1..Len(ev') : ~(ev'[j].url = ev[i].url /\ ev'[j].type = "fetch")]_vars

-----------------------------------------------------------------------------
(* C24 *)

\* the failed token acquisitions among the events e of a step
FailedTokenCalls(e) == { i \in 1..Len(e) : e[i].type = "fail" /\ e[i].url = TokenUrl }

\* the token responses getAccessToken takes over in the step just taken
TokenStores == { i \in 1..Len(ev') : ev'[i].type = "tokenStore" }

C24_WitnessNoToken ==
    \E i \in FailedTokenCalls(ev) : accessToken = Null /\ tokenExpiry = 0

\* refuted by the model, which shows that the last case of C24 occurs: no token
\* is asked for in the step that follows a failed acquisition
C24_NeverAcquiredAgain ==
    [][FailedTokenCalls(ev) # {} =>
        \A j \in 1..Len(ev') : ~(ev'[j].url = TokenUrl /\ ev'[j].type = "fetch")]_vars

====
